---- MODULE Spec2Model ----
(***************************************************************************)
(* Model of the sequential conformal-interval estimator of                 *)
(* mapie_plot_ts_tutorial.py: _estimate_prediction_intervals_worker, the   *)
(* cache-or-compute providers next to it (train_base_model,                *)
(* estimate_pred_interals_no_pfit_enbpi) and the pickle / npy blob store   *)
(* they share.  The MAPIE regressor is an opaque fit / partial_fit /       *)
(* adapt_conformal_inference / predict unit: its state is the list of      *)
(* updates it has received, its point prediction is a function of that     *)
(* state and of the row, and its interval bounds may be infinite           *)
(* (allow_infinite_bounds=True).                                           *)
(***************************************************************************)
EXTENDS Integers, Sequences, FiniteSets, TLC

\* ------------------------------------------------------------------ bounds
MaxN == 3
MaxGap == 2
MaxInfRows == 1

\* ------------------------------------------------------- program constants
eps == -1
GammaPct == 5
PosInf == 999
NegInf == -999

Methods == {"enbpi", "aci"}

VARIABLES
    store,                \* the blob store: key -> pickled model / npy array / absent
    fn,                   \* the function being executed
    pc,                   \* its position
    cfg,                  \* the arguments of the call
    mapie_ts_regressor,   \* the worker's regressor (None before line 306)
    y_pred,               \* the worker's prediction buffer
    y_pis,                \* the worker's interval buffer
    raw_pis,              \* what predict emitted for each row (history)
    step,                 \* the loop variable of the stepping loop
    trace,                \* the calls made by the running function, in order
    ret,                  \* the value returned
    exc,                  \* the exception that ended the call, "" if none
    store0,               \* the store when the call started
    runNo,                \* position in the two-run scenario (0 outside it)
    first,                \* outcome of the scenario's first run
    phase,                \* the call main makes next: train_base_model, then
                          \* estimate_pred_interals_no_pfit_enbpi, then the worker
    faults,               \* the library calls that fail in this environment
    native_results,       \* compare_methods: the result mapping of the native run
    posthoc_results,      \* compare_methods: the result mapping of the posthoc run
    estimator,            \* NN_Estimator: the attributes of the estimator object
    locals                \* NN_Estimator.fit: its local variables

vars == <<store, fn, pc, cfg, mapie_ts_regressor, y_pred, y_pis, raw_pis, step,
          trace, ret, exc, store0, runNo, first, phase, faults, native_results,
          posthoc_results, estimator, locals>>

\* ------------------------------------------------------------------ values
NoneVal == [ty |-> "None"]

\* a Python str
Str(s) == [ty |-> "str", s |-> s]

\* the file names, built by f-strings from method, pfit_str and
\* N_POINTS_TEMP = 100 (line 67)
pfit_str(with_partial_fit) == IF with_partial_fit THEN "pfit" ELSE "no_pfit"

filename_model_base(method) ==
    Str(IF method = "enbpi" THEN "mapie_enbpi_100.model" ELSE "mapie_aci_100.model")

filename_model_adapted(method, wpf) ==
    Str(CASE method = "enbpi" /\ pfit_str(wpf) = "pfit" -> "model_enbpi_pfit_100.model"
          [] method = "enbpi" /\ pfit_str(wpf) = "no_pfit" -> "model_enbpi_no_pfit_100.model"
          [] method = "aci" /\ pfit_str(wpf) = "pfit" -> "model_aci_pfit_100.model"
          [] method = "aci" /\ pfit_str(wpf) = "no_pfit" -> "model_aci_no_pfit_100.model")

filename_arr_y_pred(method, wpf) ==
    Str(CASE method = "enbpi" /\ pfit_str(wpf) = "pfit" -> "y_pred_enbpi_pfit_100.npy"
          [] method = "enbpi" /\ pfit_str(wpf) = "no_pfit" -> "y_pred_enbpi_no_pfit_100.npy"
          [] method = "aci" /\ pfit_str(wpf) = "pfit" -> "y_pred_aci_pfit_100.npy"
          [] method = "aci" /\ pfit_str(wpf) = "no_pfit" -> "y_pred_aci_no_pfit_100.npy")

filename_arr_y_pis(method, wpf) ==
    Str(CASE method = "enbpi" /\ pfit_str(wpf) = "pfit" -> "y_pis_enbpi_pfit_100.npy"
          [] method = "enbpi" /\ pfit_str(wpf) = "no_pfit" -> "y_pis_enbpi_no_pfit_100.npy"
          [] method = "aci" /\ pfit_str(wpf) = "pfit" -> "y_pis_aci_pfit_100.npy"
          [] method = "aci" /\ pfit_str(wpf) = "no_pfit" -> "y_pis_aci_no_pfit_100.npy")

filename_enbpi_no_pfit == Str("mapie_enbpi_no_pfit_100.model")
filename_base_model == Str("base_RandomForestRegressor_100.model")

\* the store maps the names of the files present to their content
EmptyStore == [k \in {} |-> NoneVal]
Present(st, filename) == filename.s \in DOMAIN st

Ev(op, key, lo, hi, arg) == [op |-> op, key |-> key, lo |-> lo, hi |-> hi, arg |-> arg]
NoKey == ""

\* rows selected by .iloc[lo:hi] / [lo:hi] on an axis of length n
Rows(lo, hi, n) == {i \in 0..(n - 1) : lo <= i /\ i < hi}

ndarray(shape, data) == [ty |-> "ndarray", shape |-> shape, data |-> data]
zeros_pred(n) == ndarray(<<n>>, [i \in 0..(n - 1) |-> 0])
zeros_pis(shape) == ndarray(shape, [i \in 0..(shape[1] - 1) |-> <<0, 0>>])

isinf(v) == v = PosInf \/ v = NegInf

\* ------------------------------------------------------------ the regressor
NewRegressor(method) ==
    [ty |-> "regressor", method |-> method, fitted |-> FALSE, hist |-> <<>>]

Fit(reg) == [reg EXCEPT !.fitted = TRUE, !.hist = <<>>]

PartialFit(reg, lo, hi) ==
    [reg EXCEPT !.hist = Append(@, [op |-> "partial_fit", lo |-> lo, hi |-> hi])]

AdaptConformalInference(reg, lo, hi) ==
    [reg EXCEPT !.hist = Append(@, [op |-> "adapt", lo |-> lo, hi |-> hi])]

PointOf(reg, i) == 10 * (Len(reg.hist) + 1) + i

\* inf[i]: 0 both bounds finite, 1 lower bound -inf, 2 upper bound +inf
Predict(reg, rows, inf) ==
    [i \in rows |->
        [pred |-> PointOf(reg, i),
         lo |-> IF inf[i] = 1 THEN NegInf ELSE PointOf(reg, i) - 1,
         hi |-> IF inf[i] = 2 THEN PosInf ELSE PointOf(reg, i) + 1]]

InfRowsOf(raw) == {i \in DOMAIN raw : isinf(raw[i][1]) \/ isinf(raw[i][2])}

InfChoices(rows, used) ==
    {f \in [rows -> 0..2] : Cardinality({i \in rows : f[i] # 0}) + used <= MaxInfRows}

\* ---------------------------------------------------------------- the store
\* the errors of the library calls that the environment makes fail: a file
\* that exists but cannot be opened, a fit or a predict that rejects its data
LoadError == "PermissionError"
SaveError == "PermissionError"
FitError == "ValueError"
PredictError == "ValueError"

\* outcome recorded with a call: 0 done (a load: not found), 1 a load that
\* found its file, 2 the call raised another error
Failed == 2

\* get_model / load_array: the value, FileNotFoundError when the file is
\* absent, the error of open / pickle.load / np.load otherwise
get_model(st, filename) ==
    IF ~Present(st, filename)
    THEN [exc |-> "FileNotFoundError", val |-> NoneVal]
    ELSE IF "load" \in faults
    THEN [exc |-> LoadError, val |-> NoneVal]
    ELSE [exc |-> "", val |-> st[filename.s]]

load_array(st, filename) ==
    IF ~Present(st, filename)
    THEN [exc |-> "FileNotFoundError", val |-> NoneVal]
    ELSE IF "load" \in faults
    THEN [exc |-> LoadError, val |-> NoneVal]
    ELSE [exc |-> "", val |-> st[filename.s]]

\* save_model(model, filename): pickle.dump(model, open(MODELS_FOLDER/filename, 'wb'))
save_model(st, model, filename) ==
    IF filename.ty # "str"
    THEN [exc |-> "TypeError", store |-> st]
    ELSE IF "save" \in faults
    THEN [exc |-> SaveError, store |-> st]
    ELSE [exc |-> "", store |-> (filename.s :> model) @@ st]

\* save_array(array, filename): np.save(os.path.join(ARRAYS_FOLDER, filename), array);
\* os.path.join raises TypeError unless filename is a str
save_array(st, array, filename) ==
    IF filename.ty # "str"
    THEN [exc |-> "TypeError", store |-> st]
    ELSE IF "save" \in faults
    THEN [exc |-> SaveError, store |-> st]
    ELSE [exc |-> "", store |-> (filename.s :> array) @@ st]

\* try: model = get_model(key) except FileNotFoundError: skip = False
\* if not skip: model = model.fit(..); save_model(model, key)
\* (worker lines 306-321, estimate_pred_interals_no_pfit_enbpi lines 229-240,
\* train_base_model lines 109-140)
LoadOrFit(st, kb, tried, fresh, fitted) ==
    LET g == get_model(st, kb)
        hit == tried /\ g.exc = ""
        ev1 == IF ~tried THEN <<>>
               ELSE <<Ev("get_model", kb.s, 0, 0,
                         IF hit THEN 1 ELSE IF g.exc = "FileNotFoundError" THEN 0 ELSE Failed)>>
        sv == save_model(st, fitted, kb)
    IN  IF hit
        THEN [model |-> g.val, store |-> st, events |-> ev1, exc |-> ""]
        ELSE IF tried /\ g.exc # "FileNotFoundError"
        THEN [model |-> fresh, store |-> st, events |-> ev1, exc |-> g.exc]
        ELSE IF "fit" \in faults
        THEN [model |-> fresh, store |-> st, exc |-> FitError,
              events |-> ev1 \o <<Ev("fit", NoKey, 0, 0, Failed)>>]
        ELSE [model |-> fitted, store |-> sv.store, exc |-> sv.exc,
              events |-> ev1 \o <<Ev("fit", NoKey, 0, 0, 0),
                                   Ev("save_model", kb.s, 0, 0,
                                      IF sv.exc = "" THEN 0 ELSE Failed)>>]

\* ------------------------------------------------- arguments of the worker
PisShape(n, ndim) == IF ndim = 3 THEN <<n, 2, 1>> ELSE <<n, 2>>

WorkerConfigs(ndims) ==
    {[method |-> m, with_partial_fit |-> p, gap |-> g, n |-> n,
      skip_base_training |-> sb, skip_adaptation |-> sa,
      y_pis_shape |-> PisShape(n, d)] :
        m \in Methods, p \in BOOLEAN, g \in 1..MaxGap, n \in 1..MaxN,
        sb \in BOOLEAN, sa \in BOOLEAN, d \in ndims}

TryCacheResult_predOnly(st, c) ==
    LET kp == filename_arr_y_pred(c.method, c.with_partial_fit)
        ki == filename_arr_y_pis(c.method, c.with_partial_fit)
        r1 == load_array(st, kp)
        r2 == load_array(st, ki)
    IN  IF c.skip_adaptation /\ r1.exc = ""
        THEN [returned |-> TRUE, y_pred |-> r1.val, y_pis |-> r2.val, exc |-> "",
              events |-> <<Ev("load_array", kp.s, 0, 0, 1)>>]
        ELSE [returned |-> FALSE, y_pred |-> NoneVal, y_pis |-> NoneVal, exc |-> "",
              events |-> <<>>]

TryCacheResult_catchAll(st, c) ==
    LET kp == filename_arr_y_pred(c.method, c.with_partial_fit)
        ki == filename_arr_y_pis(c.method, c.with_partial_fit)
        r1 == load_array(st, kp)
        r2 == load_array(st, ki)
        o1 == IF r1.exc = "" THEN 1 ELSE IF r1.exc = "FileNotFoundError" THEN 0 ELSE Failed
        o2 == IF r2.exc = "" THEN 1 ELSE IF r2.exc = "FileNotFoundError" THEN 0 ELSE Failed
    IN  IF ~c.skip_adaptation
        THEN [returned |-> FALSE, y_pred |-> NoneVal, y_pis |-> NoneVal, exc |-> "",
              events |-> <<>>]
        ELSE IF r1.exc # ""
        THEN [returned |-> FALSE, y_pred |-> NoneVal, y_pis |-> NoneVal, exc |-> "",
              events |-> <<Ev("load_array", kp.s, 0, 0, o1)>>]
        ELSE IF r2.exc # ""
        THEN [returned |-> FALSE, y_pred |-> r1.val, y_pis |-> NoneVal, exc |-> "",
              events |-> <<Ev("load_array", kp.s, 0, 0, 1), Ev("load_array", ki.s, 0, 0, o2)>>]
        ELSE [returned |-> TRUE, y_pred |-> r1.val, y_pis |-> r2.val, exc |-> "",
              events |-> <<Ev("load_array", kp.s, 0, 0, 1), Ev("load_array", ki.s, 0, 0, 1)>>]

\* ------------------------------------------- worker, lines 298-304: the cache
\* try: y_pred = load_array(..); y_pis = load_array(..); return y_pred, y_pis
\* except FileNotFoundError: fall through
TryCacheResult(st, c) ==
    LET kp == filename_arr_y_pred(c.method, c.with_partial_fit)
        ki == filename_arr_y_pis(c.method, c.with_partial_fit)
        r1 == load_array(st, kp)
        r2 == load_array(st, ki)
    IN  IF ~c.skip_adaptation
        THEN [returned |-> FALSE, y_pred |-> NoneVal, y_pis |-> NoneVal, exc |-> "",
              events |-> <<>>]
        ELSE IF r1.exc = "FileNotFoundError"
        THEN [returned |-> FALSE, y_pred |-> NoneVal, y_pis |-> NoneVal, exc |-> "",
              events |-> <<Ev("load_array", kp.s, 0, 0, 0)>>]
        ELSE IF r1.exc # ""
        THEN [returned |-> FALSE, y_pred |-> NoneVal, y_pis |-> NoneVal, exc |-> r1.exc,
              events |-> <<Ev("load_array", kp.s, 0, 0, Failed)>>]
        ELSE IF r2.exc = "FileNotFoundError"
        THEN [returned |-> FALSE, y_pred |-> r1.val, y_pis |-> NoneVal, exc |-> "",
              events |-> <<Ev("load_array", kp.s, 0, 0, 1), Ev("load_array", ki.s, 0, 0, 0)>>]
        ELSE IF r2.exc # ""
        THEN [returned |-> FALSE, y_pred |-> r1.val, y_pis |-> NoneVal, exc |-> r2.exc,
              events |-> <<Ev("load_array", kp.s, 0, 0, 1),
                           Ev("load_array", ki.s, 0, 0, Failed)>>]
        ELSE [returned |-> TRUE, y_pred |-> r1.val, y_pis |-> r2.val, exc |-> "",
              events |-> <<Ev("load_array", kp.s, 0, 0, 1), Ev("load_array", ki.s, 0, 0, 1)>>]

WorkerBase_nofit(st, c) ==
    LET kb == filename_model_base(c.method)
        g == get_model(st, kb)
        hit == c.skip_base_training /\ g.exc = ""
    IN  [model |-> IF hit THEN g.val ELSE NewRegressor(c.method), store |-> st, exc |-> "",
         events |-> IF c.skip_base_training
                    THEN <<Ev("get_model", kb.s, 0, 0, IF hit THEN 1 ELSE 0)>> ELSE <<>>]

WorkerBase_refit(st, c) ==
    LET kb == filename_model_base(c.method)
        g == get_model(st, kb)
        hit == c.skip_base_training /\ g.exc = ""
        fitted == Fit(IF hit THEN g.val ELSE NewRegressor(c.method))
    IN  [model |-> fitted, store |-> save_model(st, fitted, kb).store, exc |-> "",
         events |-> (IF c.skip_base_training
                     THEN <<Ev("get_model", kb.s, 0, 0, IF hit THEN 1 ELSE 0)>> ELSE <<>>)
                    \o <<Ev("fit", NoKey, 0, 0, 0), Ev("save_model", kb.s, 0, 0, 0)>>]

WorkerBase_updated(st, c) ==
    LoadOrFit(st, filename_model_base(c.method), c.skip_base_training,
              NewRegressor(c.method), PartialFit(Fit(NewRegressor(c.method)), 0, c.gap))

\* ------------------------------- worker, lines 306-321: the base regressor
WorkerBase(st, c) ==
    LoadOrFit(st, filename_model_base(c.method), c.skip_base_training,
              NewRegressor(c.method), Fit(NewRegressor(c.method)))

\* --------------------------------------- worker, lines 333-358: the slices
LoopFirst_skip(gap) == gap + 1
LoopFirst(gap) == gap
NextStep(s, gap) == s + gap
PrevChunk_current(s, gap) == [lo |-> s, hi |-> s + gap]
PrevChunk_all(s, gap) == [lo |-> 0, hi |-> s]
PrevChunk(s, gap) == [lo |-> s - gap, hi |-> s]
CurChunk(s, gap) == [lo |-> s, hi |-> s + gap]

\* y_pred[lo:hi], y_pis[lo:hi, :, :] = predict(...)
AssignPred(arr, out) ==
    [arr EXCEPT !.data = [i \in DOMAIN @ |-> IF i \in DOMAIN out THEN out[i].pred ELSE @[i]]]

AssignPis(arr, out) ==
    [arr EXCEPT !.data =
        [i \in DOMAIN @ |-> IF i \in DOMAIN out THEN <<out[i].lo, out[i].hi>> ELSE @[i]]]

Sentinel_wholeRows(arr, rows) ==
    [arr EXCEPT !.data =
        [i \in DOMAIN @ |->
            IF i \in rows /\ (isinf(@[i][1]) \/ isinf(@[i][2])) THEN <<eps, eps>> ELSE @[i]]]

\* arr = y_pis[lo:hi, :, :]; arr[np.isinf(arr)] = eps   (arr is a view of y_pis)
Sentinel(arr, rows) ==
    [arr EXCEPT !.data =
        [i \in DOMAIN @ |->
            IF i \in rows
            THEN <<IF isinf(@[i][1]) THEN eps ELSE @[i][1],
                   IF isinf(@[i][2]) THEN eps ELSE @[i][2]>>
            ELSE @[i]]]

\* y_pis.squeeze(): drop every axis of length one
squeeze(arr) == [arr EXCEPT !.shape = SelectSeq(@, LAMBDA d : d # 1)]

\* worker, lines 360-365.  The call sites pass (filename, array) to
\* save_array(array, filename).
FinishResult(st, yp, sq, reg, c) ==
    LET kp == filename_arr_y_pred(c.method, c.with_partial_fit)
        ki == filename_arr_y_pis(c.method, c.with_partial_fit)
        ka == filename_model_adapted(c.method, c.with_partial_fit)
        r1 == save_array(st, kp, yp)
        r2 == save_array(r1.store, ki, sq)
        r3 == save_model(r2.store, reg, ka)
    IN  IF r1.exc # ""
        THEN [exc |-> r1.exc, store |-> r1.store, events |-> <<>>, ret |-> NoneVal]
        ELSE IF r2.exc # ""
        THEN [exc |-> r2.exc, store |-> r2.store, ret |-> NoneVal,
              events |-> <<Ev("save_array", kp.s, 0, 0, 0)>>]
        ELSE IF r3.exc # ""
        THEN [exc |-> r3.exc, store |-> r3.store, ret |-> NoneVal,
              events |-> <<Ev("save_array", kp.s, 0, 0, 0), Ev("save_array", ki.s, 0, 0, 0)>>]
        ELSE [exc |-> "", store |-> r3.store,
              ret |-> [y_pred |-> yp, y_pis |-> sq],
              events |-> <<Ev("save_array", kp.s, 0, 0, 0), Ev("save_array", ki.s, 0, 0, 0),
                           Ev("save_model", ka.s, 0, 0, 0)>>]

\* ---------------------------------------------------------------- actions
Ended == {"done", "raised"}

Enter(f, c) ==
    /\ fn' = f
    /\ cfg' = c
    /\ mapie_ts_regressor' = NoneVal
    /\ y_pred' = NoneVal
    /\ y_pis' = NoneVal
    /\ raw_pis' = <<>>
    /\ step' = 0
    /\ trace' = <<>>
    /\ ret' = NoneVal
    /\ exc' = ""
    /\ store0' = store
    /\ UNCHANGED store

StartWorker ==
    /\ runNo = 0
    /\ pc = "idle"
    /\ phase = "worker"
    /\ \E c \in WorkerConfigs({2, 3}) : Enter("worker", c)
    /\ pc' = "cache"
    /\ UNCHANGED <<runNo, first, phase, faults, native_results, posthoc_results, estimator, locals>>

TryCache ==
    /\ fn = "worker" /\ pc = "cache"
    /\ LET r == TryCacheResult(store, cfg)
       IN  /\ trace' = trace \o r.events
           /\ y_pred' = r.y_pred
           /\ y_pis' = r.y_pis
           /\ ret' = IF r.returned THEN [y_pred |-> r.y_pred, y_pis |-> r.y_pis] ELSE NoneVal
           /\ exc' = r.exc
           /\ pc' = IF r.exc # "" THEN "raised" ELSE IF r.returned THEN "done" ELSE "base"
    /\ UNCHANGED <<store, fn, cfg, mapie_ts_regressor, raw_pis, step, store0,
                   runNo, first, phase, faults, native_results, posthoc_results, estimator, locals>>

BaseRegressor ==
    /\ fn = "worker" /\ pc = "base"
    /\ LET r == WorkerBase(store, cfg)
       IN  /\ mapie_ts_regressor' = r.model
           /\ store' = r.store
           /\ trace' = trace \o r.events
           /\ exc' = r.exc
           /\ pc' = IF r.exc = "" THEN "first" ELSE "raised"
    /\ UNCHANGED <<fn, cfg, y_pred, y_pis, raw_pis, step, ret, store0, runNo, first, phase, faults, native_results, posthoc_results,
                   estimator, locals>>

\* lines 323-329: the buffers and chunk 0
PredictFirst ==
    /\ fn = "worker" /\ pc = "first"
    /\ LET rows == Rows(0, cfg.gap, cfg.n)
       IN  \E inf \in InfChoices(rows, 0) :
             LET out == Predict(mapie_ts_regressor, rows, inf)
                 ok == Len(cfg.y_pis_shape) = 3
                 bad == "predict" \in faults
             IN  /\ y_pred' = IF bad THEN zeros_pred(cfg.n)
                                     ELSE AssignPred(zeros_pred(cfg.n), out)
                 /\ y_pis' = IF ok /\ ~bad THEN AssignPis(zeros_pis(cfg.y_pis_shape), out)
                                            ELSE zeros_pis(cfg.y_pis_shape)
                 /\ raw_pis' = IF bad THEN <<>> ELSE [i \in rows |-> <<out[i].lo, out[i].hi>>]
                 /\ trace' = Append(trace, Ev("predict", NoKey, 0, cfg.gap,
                                              IF bad THEN Failed ELSE 0))
                 /\ exc' = IF bad THEN PredictError ELSE IF ok THEN "" ELSE "IndexError"
                 /\ pc' = IF ok /\ ~bad THEN "loop" ELSE "raised"
    /\ step' = 0
    /\ UNCHANGED <<store, fn, cfg, mapie_ts_regressor, ret, store0, runNo, first, phase, faults, native_results, posthoc_results,
                   estimator, locals>>

LoopUpdates_swapped(reg, c, s) ==
    LET prev == PrevChunk(s, c.gap)
        reg1 == IF c.method = "aci"
                THEN AdaptConformalInference(reg, prev.lo, prev.hi) ELSE reg
        reg2 == IF c.with_partial_fit THEN PartialFit(reg1, prev.lo, prev.hi) ELSE reg1
        ev1 == IF c.method = "aci"
               THEN <<Ev("adapt", NoKey, prev.lo, prev.hi, GammaPct)>> ELSE <<>>
        ev2 == IF c.with_partial_fit
               THEN <<Ev("partial_fit", NoKey, prev.lo, prev.hi, 0)>> ELSE <<>>
    IN  [reg |-> reg2, events |-> ev1 \o ev2]

\* lines 336-346: the updates that precede the prediction of the chunk at s
LoopUpdates(reg, c, s) ==
    LET prev == PrevChunk(s, c.gap)
        reg1 == IF c.with_partial_fit THEN PartialFit(reg, prev.lo, prev.hi) ELSE reg
        reg2 == IF c.method = "aci"
                THEN AdaptConformalInference(reg1, prev.lo, prev.hi) ELSE reg1
        ev1 == IF c.with_partial_fit
               THEN <<Ev("partial_fit", NoKey, prev.lo, prev.hi, 0)>> ELSE <<>>
        ev2 == IF c.method = "aci"
               THEN <<Ev("adapt", NoKey, prev.lo, prev.hi, GammaPct)>> ELSE <<>>
    IN  [reg |-> reg2, events |-> ev1 \o ev2]

\* lines 333-356: one iteration up to the assignment of the prediction
LoopBody ==
    /\ fn = "worker" /\ pc = "loop"
    /\ LET s == IF step = 0 THEN LoopFirst(cfg.gap) ELSE NextStep(step, cfg.gap)
           cur == CurChunk(s, cfg.gap)
           rows == Rows(cur.lo, cur.hi, cfg.n)
           u == LoopUpdates(mapie_ts_regressor, cfg, s)
       IN  /\ s < cfg.n
           /\ \E inf \in InfChoices(rows, Cardinality(InfRowsOf(raw_pis))) :
                LET out == Predict(u.reg, rows, inf)
                IN  /\ y_pred' = AssignPred(y_pred, out)
                    /\ y_pis' = AssignPis(y_pis, out)
                    /\ raw_pis' = [i \in rows |-> <<out[i].lo, out[i].hi>>] @@ raw_pis
           /\ mapie_ts_regressor' = u.reg
           /\ trace' = trace \o u.events \o <<Ev("predict", NoKey, cur.lo, cur.hi, 0)>>
           /\ step' = s
    /\ pc' = "sentinel"
    /\ UNCHANGED <<store, fn, cfg, ret, exc, store0, runNo, first, phase, faults, native_results, posthoc_results,
                   estimator, locals>>

\* lines 357-358
LoopSentinel ==
    /\ fn = "worker" /\ pc = "sentinel"
    /\ y_pis' = Sentinel(y_pis, Rows(step, step + cfg.gap, cfg.n))
    /\ pc' = "loop"
    /\ UNCHANGED <<store, fn, cfg, mapie_ts_regressor, y_pred, raw_pis, step, trace,
                   ret, exc, store0, runNo, first, phase, faults, native_results, posthoc_results,
                   estimator, locals>>

\* the range is exhausted: lines 360-365
Finish ==
    /\ fn = "worker" /\ pc = "loop"
    /\ ~((IF step = 0 THEN LoopFirst(cfg.gap) ELSE NextStep(step, cfg.gap)) < cfg.n)
    /\ LET sq == squeeze(y_pis)
           r == FinishResult(store, y_pred, sq, mapie_ts_regressor, cfg)
       IN  /\ y_pis' = sq
           /\ store' = r.store
           /\ trace' = trace \o r.events
           /\ ret' = r.ret
           /\ exc' = r.exc
           /\ pc' = IF r.exc = "" THEN "done" ELSE "raised"
    /\ UNCHANGED <<fn, cfg, mapie_ts_regressor, y_pred, raw_pis, step, store0, runNo, first, phase, faults, native_results, posthoc_results,
                   estimator, locals>>

\* the call is over: its frame is dropped, the store stays.  An exception
\* ends the process, and the next process starts main again.
Return ==
    /\ runNo = 0
    /\ pc \in Ended
    /\ Enter("none", NoneVal)
    /\ pc' = "idle"
    /\ phase' = IF pc = "raised" THEN "train" ELSE phase
    /\ UNCHANGED <<runNo, first, faults, native_results, posthoc_results, estimator, locals>>

WorkerStep == TryCache \/ BaseRegressor \/ PredictFirst \/ LoopBody \/ LoopSentinel \/ Finish

\* ----------------- estimate_pred_interals_no_pfit_enbpi, lines 219-247
EnbpiNoPfitBase(st, skip_base_training) ==
    LoadOrFit(st, filename_enbpi_no_pfit, skip_base_training,
              NewRegressor("enbpi"), Fit(NewRegressor("enbpi")))

EnbpiConfigs ==
    {[method |-> "enbpi", with_partial_fit |-> FALSE, gap |-> 1, n |-> n,
      skip_base_training |-> sb, skip_adaptation |-> FALSE,
      y_pis_shape |-> PisShape(n, 3)] : n \in 1..MaxN, sb \in BOOLEAN}

\* the call with the arguments c
NoPfitEnbpiCall(c) ==
    LET r == EnbpiNoPfitBase(store, c.skip_base_training)
        rows == Rows(0, c.n, c.n)
    IN  \E inf \in InfChoices(rows, 0) :
          LET out == Predict(r.model, rows, inf)
              yp == AssignPred(zeros_pred(c.n), out)
              yi == AssignPis(zeros_pis(c.y_pis_shape), out)
              bad == "predict" \in faults
              e == IF r.exc # "" THEN r.exc ELSE IF bad THEN PredictError ELSE ""
          IN  /\ fn' = "no_pfit_enbpi"
              /\ cfg' = c
              /\ store0' = store
              /\ store' = r.store
              /\ mapie_ts_regressor' = r.model
              /\ trace' = IF r.exc # "" THEN r.events
                           ELSE r.events \o <<Ev("predict", NoKey, 0, c.n,
                                                  IF bad THEN Failed ELSE 0)>>
              /\ y_pred' = IF e = "" THEN yp ELSE NoneVal
              /\ y_pis' = IF e = "" THEN squeeze(yi) ELSE NoneVal
              /\ raw_pis' = IF e = "" THEN [i \in rows |-> <<out[i].lo, out[i].hi>>]
                             ELSE <<>>
              /\ ret' = IF e = "" THEN [y_pred |-> yp, y_pis |-> squeeze(yi)] ELSE NoneVal
              /\ exc' = e
              /\ pc' = IF e = "" THEN "done" ELSE "raised"

EstimateNoPfitEnbpi ==
    /\ runNo = 0
    /\ pc = "idle"
    /\ phase = "enbpi"
    /\ \E c \in EnbpiConfigs : NoPfitEnbpiCall(c)
    /\ step' = 0
    /\ phase' = "worker"
    /\ UNCHANGED <<runNo, first, faults, native_results, posthoc_results, estimator, locals>>

\* ------------------------------------------ train_base_model, lines 92-141
\* the callers pass X_train, y_train and model_params_choices (assert of line 120)
BaseEstimator == [ty |-> "estimator", cls |-> "RandomForestRegressor", fitted |-> TRUE]

TrainBaseModelResult(st, load_trained_model) ==
    LoadOrFit(st, filename_base_model, load_trained_model, NoneVal, BaseEstimator)

TrainConfigs ==
    {[method |-> "RandomForestRegressor", with_partial_fit |-> FALSE, gap |-> 1, n |-> 1,
      skip_base_training |-> l, skip_adaptation |-> FALSE,
      y_pis_shape |-> <<>>] : l \in BOOLEAN}

TrainBaseModel ==
    /\ runNo = 0
    /\ pc = "idle"
    /\ phase \in {"train", "worker"}
    /\ \E c \in TrainConfigs :
         LET r == TrainBaseModelResult(store, c.skip_base_training)
         IN  /\ fn' = "train_base_model"
             /\ cfg' = c
             /\ store0' = store
             /\ store' = r.store
             /\ trace' = r.events
             /\ ret' = IF r.exc = "" THEN r.model ELSE NoneVal
             /\ exc' = r.exc
             /\ pc' = IF r.exc = "" THEN "done" ELSE "raised"
    /\ mapie_ts_regressor' = NoneVal
    /\ y_pred' = NoneVal
    /\ y_pis' = NoneVal
    /\ raw_pis' = <<>>
    /\ step' = 0
    /\ phase' = "enbpi"
    /\ UNCHANGED <<runNo, first, faults, native_results, posthoc_results, estimator, locals>>

\* ------------------------------------------------------- the specification
\* arrays an earlier session left in ARRAYS_FOLDER
ExtPred == ndarray(<<1>>, [i \in 0..0 |-> 10])
ExtPis == ndarray(<<2>>, [i \in 0..0 |-> <<9, 11>>])
PreloadKeys == {filename_arr_y_pred("aci", TRUE), filename_arr_y_pis("aci", TRUE)}

Preloaded(S) ==
    [k \in {f.s : f \in S} |->
        IF k = filename_arr_y_pred("aci", TRUE).s THEN ExtPred ELSE ExtPis]

InitCall ==
    /\ fn = "none"
    /\ pc = "idle"
    /\ cfg = NoneVal
    /\ mapie_ts_regressor = NoneVal
    /\ y_pred = NoneVal
    /\ y_pis = NoneVal
    /\ raw_pis = <<>>
    /\ step = 0
    /\ trace = <<>>
    /\ ret = NoneVal
    /\ exc = ""
    /\ runNo = 0
    /\ first = NoneVal
    /\ native_results = NoneVal
    /\ posthoc_results = NoneVal
    /\ estimator = NoneVal
    /\ locals = NoneVal

Init ==
    /\ \E S \in SUBSET PreloadKeys : store = Preloaded(S)
    /\ store0 = store
    /\ phase = "train"
    /\ faults = {}
    /\ InitCall

Next == StartWorker \/ WorkerStep \/ EstimateNoPfitEnbpi \/ TrainBaseModel \/ Return

Spec == Init /\ [][Next]_vars

\* the same program in an environment where one kind of library call fails
FaultKinds == {"load", "fit", "predict", "save"}

PreloadedModels ==
    (filename_base_model.s :> BaseEstimator)
        @@ (filename_enbpi_no_pfit.s :> Fit(NewRegressor("enbpi")))

InitFaults ==
    /\ store \in {a @@ m : a \in {EmptyStore, Preloaded(PreloadKeys)},
                            m \in {EmptyStore, PreloadedModels}}
    /\ store0 = store
    /\ phase = "train"
    /\ \E k \in FaultKinds : faults = {k}
    /\ InitCall

SpecFaults == InitFaults /\ [][Next]_vars

\* two runs of the worker with one configuration, from an empty store, the
\* second with skip_adaptation=True
InitTwice ==
    /\ store = EmptyStore
    /\ store0 = store
    /\ phase = "worker"
    /\ faults = {}
    /\ InitCall

StartFirst ==
    /\ runNo = 0 /\ pc = "idle"
    /\ \E c \in WorkerConfigs({3}) : Enter("worker", c)
    /\ pc' = "cache"
    /\ runNo' = 1
    /\ UNCHANGED <<first, phase, faults, native_results, posthoc_results, estimator, locals>>

StartSecond ==
    /\ runNo = 1 /\ pc \in Ended
    /\ Enter("worker", [cfg EXCEPT !.skip_adaptation = TRUE])
    /\ pc' = "cache"
    /\ runNo' = 2
    /\ first' = [pc |-> pc, ret |-> ret, exc |-> exc, y_pred |-> y_pred, y_pis |-> y_pis]
    /\ UNCHANGED <<phase, faults, native_results, posthoc_results, estimator, locals>>

NextTwice == StartFirst \/ StartSecond \/ WorkerStep

SpecTwice == InitTwice /\ [][NextTwice]_vars

\* ------------------------ estimate_prediction_intervals_all, lines 144-216
\* the worker's three callers, in call order, lines 192-207
Variants ==
    <<[method |-> "aci", with_partial_fit |-> FALSE],
      [method |-> "enbpi", with_partial_fit |-> TRUE],
      [method |-> "aci", with_partial_fit |-> TRUE]>>

AllPhases == <<"no_pfit_enbpi", "no_pfit_aci", "pfit_enbpi", "pfit_aci", "compare_coverages">>
AllPhaseSet == {AllPhases[i] : i \in DOMAIN AllPhases}
PhaseNo(p) == CHOOSE i \in DOMAIN AllPhases : AllPhases[i] = p

\* arrays an earlier session left for some of the variants
VariantKeys(V) ==
    UNION {{filename_arr_y_pred(Variants[v].method, Variants[v].with_partial_fit),
            filename_arr_y_pis(Variants[v].method, Variants[v].with_partial_fit)} : v \in V}

PreloadedArrays(V) ==
    [k \in {f.s : f \in VariantKeys(V)} |->
        IF \E v \in V : k = filename_arr_y_pred(Variants[v].method,
                                                Variants[v].with_partial_fit).s
        THEN ExtPred ELSE ExtPis]

\* lines 187-189, with skip_base_training = True (line 179)
AllNoPfitEnbpi ==
    /\ runNo = 0
    /\ pc = "idle"
    /\ phase = "no_pfit_enbpi"
    /\ \E n \in 1..MaxN :
         NoPfitEnbpiCall([method |-> "enbpi", with_partial_fit |-> FALSE, gap |-> 1, n |-> n,
                          skip_base_training |-> TRUE, skip_adaptation |-> FALSE,
                          y_pis_shape |-> PisShape(n, 3)])
    /\ step' = 0
    /\ phase' = "no_pfit_aci"
    /\ UNCHANGED <<runNo, first, faults, native_results, posthoc_results, estimator, locals>>

\* lines 192-207: the next caller hands the worker the shape of an interval
\* array returned earlier, y_pis_enbpi_no_pfit for no_pfit_aci and
\* pfit_enbpi, y_pis_aci_no_pfit for pfit_aci; gap = 1, skip_base_training =
\* skip_adaptation = True (lines 177-180)
AllWorker ==
    /\ runNo = 0
    /\ pc = "done"
    /\ phase \in {"no_pfit_aci", "pfit_enbpi", "pfit_aci"}
    /\ LET v == Variants[PhaseNo(phase) - 1]
           earlier == IF phase = "no_pfit_aci"
                      THEN [first EXCEPT !.enbpi_no_pfit = ret]
                      ELSE IF phase = "pfit_enbpi" THEN [first EXCEPT !.aci_no_pfit = ret]
                      ELSE first
           given == IF phase = "pfit_aci" THEN earlier.aci_no_pfit ELSE earlier.enbpi_no_pfit
       IN  /\ Enter("worker",
                    [method |-> v.method, with_partial_fit |-> v.with_partial_fit, gap |-> 1,
                     n |-> cfg.n, skip_base_training |-> TRUE, skip_adaptation |-> TRUE,
                     y_pis_shape |-> given.y_pis.shape])
           /\ first' = earlier
    /\ pc' = "cache"
    /\ phase' = AllPhases[PhaseNo(phase) + 1]
    /\ UNCHANGED <<runNo, faults, native_results, posthoc_results, estimator, locals>>

InitAll ==
    /\ store \in {a @@ m : a \in {PreloadedArrays(V) : V \in SUBSET DOMAIN Variants},
                            m \in {EmptyStore, PreloadedModels}}
    /\ store0 = store
    /\ phase = "no_pfit_enbpi"
    /\ faults = {}
    /\ fn = "none"
    /\ pc = "idle"
    /\ cfg = NoneVal
    /\ mapie_ts_regressor = NoneVal
    /\ y_pred = NoneVal
    /\ y_pis = NoneVal
    /\ raw_pis = <<>>
    /\ step = 0
    /\ trace = <<>>
    /\ ret = NoneVal
    /\ exc = ""
    /\ runNo = 0
    /\ first = [store |-> store, enbpi_no_pfit |-> NoneVal, aci_no_pfit |-> NoneVal]
    /\ native_results = NoneVal
    /\ posthoc_results = NoneVal
    /\ estimator = NoneVal
    /\ locals = NoneVal

\* the part of the worker these calls reach: a call that is not answered
\* from the cache ends at line 327
NextAll == AllNoPfitEnbpi \/ AllWorker \/ TryCache \/ BaseRegressor \/ PredictFirst

SpecAll == InitAll /\ [][NextAll]_vars

\* ===================================================== compare_methods.py
\* attribute names are Python strings, here sequences of characters
native_foo == <<"n", "a", "t", "i", "v", "e", "_", "f", "o", "o">>
native_qux == <<"n", "a", "t", "i", "v", "e", "_", "q", "u", "x">>
posthoc_bar == <<"p", "o", "s", "t", "h", "o", "c", "_", "b", "a", "r">>
helper_baz == <<"h", "e", "l", "p", "e", "r", "_", "b", "a", "z">>
posthoc_cp == <<"p", "o", "s", "t", "h", "o", "c", "_", "c", "p">>
Native_up == <<"N", "a", "t", "i", "v", "e", "_", "u", "p">>
my_native == <<"m", "y", "_", "n", "a", "t", "i", "v", "e">>
AttrNames ==
    {native_foo, native_qux, posthoc_bar, posthoc_cp, helper_baz, Native_up, my_native}

native == <<"n", "a", "t", "i", "v", "e">>
posthoc == <<"p", "o", "s", "t", "h", "o", "c">>

MaxAttrs == 3

\* str.startswith
startswith_contains(str, prefix) ==
    \E i \in 0..(Len(str) - Len(prefix)) : SubSeq(str, i + 1, i + Len(prefix)) = prefix
startswith(str, prefix) ==
    Len(prefix) <= Len(str) /\ SubSeq(str, 1, Len(prefix)) = prefix

\* a function defined in the class body
Method(name) == [ty |-> "function", name |-> name]

\* a class: the attributes its own body defines, in order, and the attributes
\* it inherits from the comparer class it derives from (none when it derives
\* from UQ_Comparer directly)
Class(body, inherited) == [__dict__ |-> body, inherited |-> inherited]

\* the attributes attribute lookup finds on the class (dir(cls))
Items_lookup(cls) ==
    LET names == cls.__dict__ \o SelectSeq(cls.inherited,
                     LAMBDA a : \A i \in 1..Len(cls.__dict__) : cls.__dict__[i] # a)
    IN  [i \in 1..Len(names) |-> <<names[i], Method(names[i])>>]
\* cls.__dict__.items(): the attributes the class body defines, in order
Items(cls) ==
    LET names == cls.__dict__
    IN  [i \in 1..Len(names) |-> <<names[i], Method(names[i])>>]

\* helpers.starfilter(function, iterable): the items it for which function(*it) holds
starfilter(keep, items) == SelectSeq(items, LAMBDA it : keep[it])

\* dict(items)
dict(items) ==
    [k \in {items[i][1] : i \in 1..Len(items)} |->
        items[CHOOSE i \in 1..Len(items) :
                /\ items[i][1] = k
                /\ \A j \in (i + 1)..Len(items) : items[j][1] # k][2]]

\* UQ_Comparer._get_methods_by_prefix, line 81
_get_methods_by_prefix(cls, prefix) ==
    LET items == Items(cls)
    IN  dict(starfilter([it \in {items[i] : i \in 1..Len(items)} |->
                            startswith(it[1], prefix)], items))

get_posthoc_methods(cls) == _get_methods_by_prefix(cls, posthoc)
get_native_methods(cls) == _get_methods_by_prefix(cls, native)

\* the classes: up to MaxAttrs attributes, no name twice
Bodies ==
    UNION {{q \in [1..n -> AttrNames] : \A i, j \in 1..n : i # j => q[i] # q[j]} :
              n \in 0..MaxAttrs}

\* each derives from UQ_Comparer or from a comparer that defines native_qux
\* and posthoc_cp
Classes == {Class(q, b) : q \in Bodies, b \in {<<>>, <<native_qux, posthoc_cp>>}}

\* what a UQ method hands back: the pair (y_pred, y_pis), or the triple
\* (y_pred, y_quantiles, y_std) of my_compare_methods_script.py, line 374
Arr(name, what) == [ty |-> "ndarray", of |-> name, what |-> what]

MethodReturn(name, arity) ==
    IF arity = 2
    THEN <<Arr(name, "y_pred"), Arr(name, "y_pis")>>
    ELSE <<Arr(name, "y_pred"), Arr(name, "y_quantiles"), NoneVal>>

\* the exception of a UQ method that fails, and of the data provider
MethodRaises == "RuntimeError"
DataRaises == "OSError"

CallEv(name, uq_type, model, out) ==
    [op |-> "call", key |-> name, uq_type |-> uq_type, model |-> model, out |-> out]

EmptyDict == [k \in {} |-> NoneVal]

\* _run_methods, lines 113-121: the loop over uq_methods from position i
RECURSIVE InvokeMethods_swallow(_, _, _, _, _, _)
InvokeMethods_swallow(uq_methods, i, c, uq_type, base_model, acc) ==
    IF i > Len(uq_methods)
    THEN acc
    ELSE LET method_name == uq_methods[i][1]
             out == MethodReturn(method_name, c.arity)
         IN  IF method_name \in c.raises
             THEN InvokeMethods_swallow(uq_methods, i + 1, c, uq_type, base_model,
                     [acc EXCEPT !.events =
                         Append(@, CallEv(method_name, uq_type, base_model, "raised"))])
             ELSE IF Len(out) # 2
             THEN [acc EXCEPT !.exc = "ValueError",
                              !.events = Append(@, CallEv(method_name, uq_type, base_model,
                                                          "returned"))]
             ELSE InvokeMethods_swallow(uq_methods, i + 1, c, uq_type, base_model,
                     [acc EXCEPT !.uq_results = (method_name :> <<out[1], out[2]>>) @@ @,
                                 !.events = Append(@, CallEv(method_name, uq_type, base_model,
                                                             "returned"))])

RECURSIVE InvokeMethods(_, _, _, _, _, _)
InvokeMethods(uq_methods, i, c, uq_type, base_model, acc) ==
    IF i > Len(uq_methods)
    THEN acc
    ELSE LET method_name == uq_methods[i][1]
             out == MethodReturn(method_name, c.arity)
         IN  IF method_name \in c.raises
             THEN [acc EXCEPT !.exc = MethodRaises,
                              !.events = Append(@, CallEv(method_name, uq_type, base_model,
                                                          "raised"))]
             ELSE IF Len(out) # 2                \* y_pred, y_pis = method(...)
             THEN [acc EXCEPT !.exc = "ValueError",
                              !.events = Append(@, CallEv(method_name, uq_type, base_model,
                                                          "returned"))]
             ELSE InvokeMethods(uq_methods, i + 1, c, uq_type, base_model,
                     [acc EXCEPT !.uq_results = (method_name :> <<out[1], out[2]>>) @@ @,
                                 !.events = Append(@, CallEv(method_name, uq_type, base_model,
                                                             "returned"))])

\* My_UQ_Comparer.train_base_model, lines 142-155: train_base_model of
\* mapie_plot_ts_tutorial.py with load_trained_model=True
Comparer_train_base_model(st) ==
    LET r == TrainBaseModelResult(st, TRUE)
    IN  [r EXCEPT !.events = <<Ev("train_base_model", NoKey, 0, 0, 0)>> \o @]

_run_methods_trainAlways(st, c, uq_type) ==
    LET tb == Comparer_train_base_model(st)
        items == Items(c.cls)
        uq_methods == starfilter([it \in {items[i] : i \in 1..Len(items)} |->
                                     startswith(it[1], uq_type)], items)
        r == InvokeMethods(uq_methods, 1, c, uq_type, tb.model,
                           [exc |-> "", uq_results |-> EmptyDict, events |-> <<>>])
    IN  [exc |-> r.exc, uq_results |-> r.uq_results, events |-> tb.events \o r.events,
         store |-> tb.store]

\* UQ_Comparer._run_methods, lines 92-122
_run_methods(st, c, uq_type) ==
    LET is_posthoc == uq_type = posthoc
        tb == IF is_posthoc THEN Comparer_train_base_model(st)
              ELSE [model |-> NoneVal, store |-> st, events |-> <<>>, exc |-> ""]
        base_model == tb.model
        items == Items(c.cls)
        uq_methods == starfilter([it \in {items[i] : i \in 1..Len(items)} |->
                                     startswith(it[1], uq_type)], items)
        r == InvokeMethods(uq_methods, 1, c, uq_type, base_model,
                           [exc |-> "", uq_results |-> EmptyDict, events |-> <<>>])
    IN  IF tb.exc # ""
        THEN [exc |-> tb.exc, uq_results |-> EmptyDict, events |-> tb.events,
              store |-> tb.store]
        ELSE [exc |-> r.exc, uq_results |-> r.uq_results, events |-> tb.events \o r.events,
              store |-> tb.store]

\* the metrics of one method (compute_metrics is the subclass's)
Metrics(name) == [ty |-> "metrics", of |-> name]

\* UQ_Comparer.compute_all_metrics, lines 49-64: every record is unpacked
\* into (y_pred, y_pis)
compute_all_metrics(uq_results) ==
    IF \E k \in DOMAIN uq_results : Len(uq_results[k]) # 2
    THEN [exc |-> "ValueError", val |-> NoneVal]
    ELSE [exc |-> "", val |-> [k \in DOMAIN uq_results |-> Metrics(k)]]

\* the names bound at module level in compare_methods.py (lines 1-22 and the
\* class and function definitions)
ModuleGlobals ==
    {"ABC", "abstractmethod", "Iterable", "np", "npt", "BlockBootstrap", "plt", "randint",
     "RandomForestRegressor", "mean_pinball_loss", "crps_gaussian", "nll_gaussian",
     "get_data", "starfilter", "train_base_model", "estimate_pred_interals_no_pfit_enbpi",
     "estimate_quantiles_qr", "PLOT_DATA", "UQ_Comparer", "My_UQ_Comparer",
     "compare_methods", "plot_data", "plot_intervals", "plot_uq_results"}

\* the configurations of a comparison: the class, the method that fails (at
\* most one), the arity of what the methods return, the configured
\* whitelist (settings.METHOD_WHITELIST), whether the data can be loaded
Whitelists == {{}, {native_foo}, AttrNames}

CompareConfigs ==
    {[cls |-> q, raises |-> r, arity |-> a, method_whitelist |-> w, data_ok |-> d] :
        q \in Classes, r \in {{}} \cup {{m} : m \in AttrNames}, a \in {2, 3},
        w \in Whitelists, d \in BOOLEAN}

EnterCompare(f, c) ==
    /\ fn' = f
    /\ cfg' = c
    /\ trace' = <<>>
    /\ ret' = NoneVal
    /\ native_results' = NoneVal
    /\ posthoc_results' = NoneVal
    /\ store0' = store
    /\ UNCHANGED <<store, mapie_ts_regressor, y_pred, y_pis, raw_pis, step, runNo, first,
                   phase, faults, estimator, locals>>

\* get_native_methods() / get_posthoc_methods(), lines 71-81
GetMethods ==
    /\ phase = "compare" /\ pc = "idle"
    /\ \E q \in Classes, f \in {"get_native_methods", "get_posthoc_methods"} :
         /\ fn' = f
         /\ cfg' = [cls |-> q]
         /\ ret' = IF f = "get_native_methods" THEN get_native_methods(q)
                                               ELSE get_posthoc_methods(q)
    /\ trace' = <<>>
    /\ exc' = ""
    /\ pc' = "done"
    /\ store0' = store
    /\ UNCHANGED <<store, mapie_ts_regressor, y_pred, y_pis, raw_pis, step, runNo, first,
                   phase, faults, native_results, posthoc_results, estimator, locals>>

\* compare_methods, lines 190-196: the data
CompareStart ==
    /\ phase = "compare" /\ pc = "idle"
    /\ \E c \in CompareConfigs :
         /\ c.raises \subseteq {c.cls.__dict__[i] : i \in 1..Len(c.cls.__dict__)}
         /\ EnterCompare("compare_methods", c)
         /\ exc' = IF c.data_ok THEN "" ELSE DataRaises
         /\ pc' = IF c.data_ok THEN "native" ELSE "raised"

\* line 199
RunNative ==
    /\ fn = "compare_methods" /\ pc = "native"
    /\ LET r == _run_methods(store, cfg, native)
       IN  /\ native_results' = IF r.exc = "" THEN r.uq_results ELSE NoneVal
           /\ store' = r.store
           /\ trace' = trace \o r.events
           /\ exc' = r.exc
           /\ pc' = IF r.exc = "" THEN "posthoc" ELSE "raised"
    /\ UNCHANGED <<fn, cfg, mapie_ts_regressor, y_pred, y_pis, raw_pis, step, ret, store0,
                   runNo, first, phase, faults, posthoc_results, estimator, locals>>

\* line 200
RunPosthoc ==
    /\ fn = "compare_methods" /\ pc = "posthoc"
    /\ LET r == _run_methods(store, cfg, posthoc)
       IN  /\ posthoc_results' = IF r.exc = "" THEN r.uq_results ELSE NoneVal
           /\ store' = r.store
           /\ trace' = trace \o r.events
           /\ exc' = r.exc
           /\ pc' = IF r.exc = "" THEN "plot" ELSE "raised"
    /\ UNCHANGED <<fn, cfg, mapie_ts_regressor, y_pred, y_pis, raw_pis, step, ret, store0,
                   runNo, first, phase, faults, native_results, estimator, locals>>

\* line 203.  Plotting is an external collaborator.
PlotIntervals ==
    /\ fn = "compare_methods" /\ pc = "plot"
    /\ trace' = Append(trace, Ev("plot_intervals", NoKey, 0, 0, 0))
    /\ pc' = "metrics"
    /\ UNCHANGED <<store, fn, cfg, mapie_ts_regressor, y_pred, y_pis, raw_pis, step, ret,
                   exc, store0, runNo, first, phase, faults, native_results,
                   posthoc_results, estimator, locals>>

\* lines 207-211.  The generator evaluates the name alpha, which neither
\* compare_methods nor the module binds.
ComputeMetrics ==
    /\ fn = "compare_methods" /\ pc = "metrics"
    /\ LET bound == "alpha" \in ModuleGlobals
           m1 == compute_all_metrics(native_results)
           m2 == compute_all_metrics(posthoc_results)
           e == IF ~bound THEN "NameError" ELSE IF m1.exc # "" THEN m1.exc ELSE m2.exc
       IN  /\ exc' = e
           /\ ret' = IF e = "" THEN <<m1.val, m2.val>> ELSE NoneVal
           /\ pc' = IF e = "" THEN "done" ELSE "raised"
    /\ UNCHANGED <<store, fn, cfg, mapie_ts_regressor, y_pred, y_pis, raw_pis, step, trace,
                   store0, runNo, first, phase, faults, native_results, posthoc_results,
                   estimator, locals>>

\* ------------------------------------------ helpers/uq_arr_helpers.py
\* UQ_METHOD_TO_ARR_NAMES_DICT, lines 14-55, in the order of the literal
UQ_METHOD_TO_ARR_NAMES_DICT ==
    << <<"qhgbr", <<"native_qhgbr_y_pred_n210432_it0.npy",
                    "native_qhgbr_y_quantiles_n210432_it0.npy",
                    "native_qhgbr_y_std_n210432_it0.npy">> >>,
       <<"qr", <<"native_quantile_regression_nn_y_pred_n210432_it300_nh2_hs50.npy",
                 "native_quantile_regression_nn_y_quantiles_n210432_it300_nh2_hs50.npy",
                 "native_quantile_regression_nn_y_std_n210432_it300_nh2_hs50.npy">> >>,
       <<"gp", <<"native_gpytorch_y_pred_n210432_it200.npy",
                 "native_gpytorch_y_quantiles_n210432_it200.npy",
                 "native_gpytorch_y_std_n210432_it200.npy">> >>,
       <<"mvnn", <<"native_mvnn_y_pred_n210432_it100_nh2_hs50.npy",
                   "native_mvnn_y_quantiles_n210432_it100_nh2_hs50.npy",
                   "native_mvnn_y_std_n210432_it100_nh2_hs50.npy">> >>,
       <<"cp_hgbr", <<"posthoc_conformal_prediction_base_model_hgbr_y_pred_n210432_it5.npy",
                      "posthoc_conformal_prediction_base_model_hgbr_y_quantiles_n210432_it5.npy",
                      "posthoc_conformal_prediction_base_model_hgbr_y_std_n210432_it5.npy">> >>,
       <<"cp_linreg", <<"posthoc_conformal_prediction_base_model_linreg_y_pred_n210432_it5.npy",
                        "posthoc_conformal_prediction_base_model_linreg_y_quantiles_n210432_it5.npy",
                        "posthoc_conformal_prediction_base_model_linreg_y_std_n210432_it5.npy">> >>,
       <<"cp_nn", <<"posthoc_conformal_prediction_base_model_nn_y_pred_n210432_it5.npy",
                    "posthoc_conformal_prediction_base_model_nn_y_quantiles_n210432_it5.npy",
                    "posthoc_conformal_prediction_base_model_nn_y_std_n210432_it5.npy">> >>,
       <<"la_nn", <<"posthoc_laplace_approximation_base_model_nn_y_pred_n210432_it100.npy",
                    "posthoc_laplace_approximation_base_model_nn_y_quantiles_n210432_it100.npy",
                    "posthoc_laplace_approximation_base_model_nn_y_std_n210432_it100.npy">> >> >>

UqMethods == {UQ_METHOD_TO_ARR_NAMES_DICT[i][1] : i \in 1..Len(UQ_METHOD_TO_ARR_NAMES_DICT)}

\* IO_Helper.load_array(filename=...): the array stored under the name, or
\* the not-found error of the blob store
io_helper_load_array(st, filename) == load_array(st, Str(filename))

\* to_arrs, lines 65-68: the list of the arrays, or the first error
to_arrs(st, filenames) ==
    LET r == [i \in 1..Len(filenames) |-> io_helper_load_array(st, filenames[i])]
        bad == {i \in 1..Len(filenames) : r[i].exc # ""}
        stop == IF bad = {} THEN Len(filenames)
                ELSE CHOOSE i \in bad : \A j \in bad : i <= j
    IN  [exc |-> IF bad = {} THEN "" ELSE r[stop].exc,
         val |-> [i \in 1..Len(filenames) |-> r[i].val],
         events |-> [i \in 1..stop |->
                        Ev("load_array", filenames[i], 0, 0, IF r[i].exc = "" THEN 1 ELSE 0)]]

\* get_uq_method_to_arrs_dict, lines 58-62, for a given UQ_METHODS_WHITELIST
RECURSIVE get_uq_method_to_arrs_dict(_, _, _, _)
get_uq_method_to_arrs_dict(st, whitelist, i, acc) ==
    IF i > Len(UQ_METHOD_TO_ARR_NAMES_DICT)
    THEN acc
    ELSE LET uq_method == UQ_METHOD_TO_ARR_NAMES_DICT[i][1]
             arr_names == UQ_METHOD_TO_ARR_NAMES_DICT[i][2]
             a == to_arrs(st, arr_names)
         IN  IF uq_method \notin whitelist
             THEN get_uq_method_to_arrs_dict(st, whitelist, i + 1, acc)
             ELSE IF a.exc # ""
             THEN [exc |-> a.exc, val |-> NoneVal, events |-> acc.events \o a.events]
             ELSE get_uq_method_to_arrs_dict(st, whitelist, i + 1,
                     [acc EXCEPT !.val = (uq_method :> a.val) @@ @,
                                 !.events = @ \o a.events])

\* the whitelists tried: UQ_METHODS_WHITELIST = {'qhgbr'} (line 3), the
\* empty one and one with a second method
UqWhitelists == {{}, {"qhgbr"}, {"qhgbr", "gp"}}

GetUqMethodToArrsDict ==
    /\ phase = "compare" /\ pc = "idle"
    /\ \E w \in UqWhitelists :
         LET r == get_uq_method_to_arrs_dict(store, w, 1,
                     [exc |-> "", val |-> EmptyDict, events |-> <<>>])
         IN  /\ fn' = "get_uq_method_to_arrs_dict"
             /\ cfg' = [UQ_METHODS_WHITELIST |-> w]
             /\ ret' = r.val
             /\ exc' = r.exc
             /\ trace' = r.events
             /\ pc' = IF r.exc = "" THEN "done" ELSE "raised"
    /\ store0' = store
    /\ UNCHANGED <<store, mapie_ts_regressor, y_pred, y_pis, raw_pis, step, runNo, first,
                   phase, faults, native_results, posthoc_results, estimator, locals>>

\* the arrays an earlier comparison left in comparison_storage
ComparisonStorage ==
    [k \in {UQ_METHOD_TO_ARR_NAMES_DICT[1][2][j] : j \in 1..3} |-> [ty |-> "ndarray", of |-> k]]

\* the call is over
CompareReturn ==
    /\ phase = "compare" /\ pc \in Ended
    /\ EnterCompare("none", NoneVal)
    /\ exc' = ""
    /\ pc' = "idle"

InitCompare ==
    /\ store \in {EmptyStore, ComparisonStorage}
    /\ store0 = store
    /\ phase = "compare"
    /\ faults = {}
    /\ InitCall

NextCompare ==
    GetMethods \/ CompareStart \/ RunNative \/ RunPosthoc \/ PlotIntervals
        \/ ComputeMetrics \/ GetUqMethodToArrsDict \/ CompareReturn

SpecCompare == InitCompare /\ [][NextCompare]_vars

\* ============================================= the metrics of a comparison
\* My_UQ_Comparer.compute_metrics of my_compare_methods_script.py (lines
\* 110-144) and of compare_methods.py (lines 131-140).  Arrays are ndarray
\* records whose data is the row-major list of the entries; a number x is
\* kept as the integer 100 * x.
MaxSamples == 2

RECURSIVE Prod(_)
Prod(shape) == IF shape = <<>> THEN 1 ELSE Head(shape) * Prod(Tail(shape))

RECURSIVE Flatten(_)
Flatten(rows) == IF rows = <<>> THEN <<>> ELSE Head(rows) \o Flatten(Tail(rows))

Vec(entries) == ndarray(<<Len(entries)>>, entries)
Mat(rows) == ndarray(<<Len(rows), Len(rows[1])>>, Flatten(rows))

Raise(e) == [ty |-> "raise", exc |-> e]
IsRaise(v) == v.ty = "raise"
NpFloat(v) == [ty |-> "np.float64", v |-> v]
Symbolic(name, args) == [ty |-> "np.float64", of |-> name, args |-> args]

\* float(value)
float(value) == [ty |-> "float"] @@ [f \in DOMAIN value \ {"ty"} |-> value[f]]

Max(a, b) == IF a < b THEN b ELSE a
ISqrt(x) == CHOOSE r \in 0..x : r * r <= x /\ x < (r + 1) * (r + 1)

\* the list f[1], ..., f[n]
RECURSIVE SeqOf(_, _)
SeqOf(f, n) == IF n = 0 THEN <<>> ELSE Append(SeqOf(f, n - 1), f[n])

RECURSIVE SumTo(_, _)
SumTo(f, n) == IF n = 0 THEN 0 ELSE f[n] + SumTo(f, n - 1)

ShapeMismatchError == "ShapeMismatchError"

\* ---- the module metrics (imported at line 122)
\* sqrt(mean((y_true - y_pred)^2))
rmse(y_true, y_pred_) ==
    IF y_true.shape # y_pred_.shape THEN Raise(ShapeMismatchError)
    ELSE LET n == Prod(y_true.shape)
             sq == [i \in 1..n |-> (y_true.data[i] - y_pred_.data[i])
                                       * (y_true.data[i] - y_pred_.data[i])]
         IN  NpFloat(ISqrt((10000 * SumTo(sq, n)) \div n))

smape_scaled(y_true, y_pred_) ==
    IF y_true.shape # y_pred_.shape THEN Raise(ShapeMismatchError)
    ELSE Symbolic("smape_scaled", <<y_true.data, y_pred_.data>>)

crps(y_true, y_pred_, y_std) ==
    IF y_std = NoneVal THEN NoneVal
    ELSE IF y_true.shape # y_pred_.shape \/ y_std.shape # y_pred_.shape
    THEN Raise(ShapeMismatchError)
    ELSE Symbolic("crps", <<y_pred_.data, y_std.data, y_true.data>>)

nll_gaussian(y_true, y_pred_, y_std) ==
    IF y_std = NoneVal THEN NoneVal
    ELSE IF y_true.shape # y_pred_.shape \/ y_std.shape # y_pred_.shape
    THEN Raise(ShapeMismatchError)
    ELSE Symbolic("nll_gaussian", <<y_pred_.data, y_std.data, y_true.data>>)

\* the pinball loss of the prediction q for the level level/100 at target y
pinball(y, q, level) == Max(level * (y - q), (level - 100) * (y - q))

\* the mean, over the samples and the levels, of the pinball loss of
\* y_quantiles[i, j] at target y[i]
mean_pinball_loss(y, y_quantiles, quantiles) ==
    IF y_quantiles = NoneVal \/ quantiles = NoneVal THEN NoneVal
    ELSE IF y_quantiles.shape # y.shape \o <<Len(quantiles)>>
    THEN Raise(ShapeMismatchError)
    ELSE LET n == Prod(y.shape)
             k == Len(quantiles)
             loss == [e \in 1..(n * k) |->
                         pinball(y.data[((e - 1) \div k) + 1], y_quantiles.data[e],
                                 quantiles[((e - 1) % k) + 1])]
         IN  NpFloat(SumTo(loss, n * k) \div (n * k))

\* ---- my_compare_methods_script.py
\* clean_y, lines 127-130
clean_y(y) == IF y = NoneVal THEN y ELSE squeeze(y)

MetricNames == <<"rmse", "smape_scaled", "crps", "nll_gaussian", "mean_pinball">>

\* the dict display of lines 133-139, its values in evaluation order
MetricValues(y_pred_, y_quantiles, y_std, y_true, quantiles) ==
    <<rmse(y_true, y_pred_), smape_scaled(y_true, y_pred_), crps(y_true, y_pred_, y_std),
      nll_gaussian(y_true, y_pred_, y_std), mean_pinball_loss(y_pred_, y_quantiles, quantiles)>>

\* compute_metrics, lines 110-144
compute_metrics(a) ==
    LET v == MetricValues(clean_y(a.y_pred), clean_y(a.y_quantiles), clean_y(a.y_std),
                          clean_y(a.y_true), a.quantiles)
        bad == {i \in DOMAIN v : IsRaise(v[i])}
    IN  IF bad # {}
        THEN [exc |-> v[CHOOSE i \in bad : \A j \in bad : i <= j].exc, val |-> NoneVal]
        ELSE [exc |-> "",
              val |-> [key \in {MetricNames[i] : i \in DOMAIN MetricNames} |->
                          LET value == v[CHOOSE i \in DOMAIN MetricNames : MetricNames[i] = key]
                          IN  IF value # NoneVal THEN float(value) ELSE value]]

\* ---- compare_methods.py
AssertionError == "AssertionError"

\* uncertainty_toolbox's assert_is_flat_same_shape
is_flat_same_shape(a, b, c) == Len(a.shape) = 1 /\ a.shape = b.shape /\ b.shape = c.shape

crps_gaussian(y_pred_, y_std, y_true) ==
    IF ~is_flat_same_shape(y_pred_, y_std, y_true) THEN Raise(AssertionError)
    ELSE Symbolic("crps", <<y_pred_.data, y_std.data, y_true.data>>)

uct_nll_gaussian(y_pred_, y_std, y_true) ==
    IF ~is_flat_same_shape(y_pred_, y_std, y_true) THEN Raise(AssertionError)
    ELSE Symbolic("nll_gaussian", <<y_pred_.data, y_std.data, y_true.data>>)

\* sklearn.metrics.mean_pinball_loss(y_true, y_pred, alpha=alpha)
sklearn_mean_pinball_loss(y_true, y_pred_, alpha) ==
    IF y_true.shape # y_pred_.shape THEN Raise("ValueError")
    ELSE LET n == Prod(y_true.shape)
             loss == [i \in 1..n |-> pinball(y_true.data[i], y_pred_.data[i], alpha)]
         IN  NpFloat(SumTo(loss, n) \div n)

\* y_pis[:, 1] - y_pis[:, 0], line 133
width(y_pis_) ==
    LET n == y_pis_.shape[1]
    IN  Vec([i \in 1..n |-> y_pis_.data[2 * i] - y_pis_.data[2 * i - 1]])

\* compute_metrics, lines 131-140
My_UQ_Comparer_compute_metrics(a) ==
    IF a.y_pis = NoneVal THEN [exc |-> "TypeError", val |-> NoneVal]
    ELSE LET y_std == width(a.y_pis)
             y_true_np == squeeze(a.y_true)
             v == <<crps_gaussian(a.y_pred, y_std, y_true_np),
                    uct_nll_gaussian(a.y_pred, y_std, y_true_np),
                    sklearn_mean_pinball_loss(y_true_np, a.y_pred, a.alpha)>>
             bad == {i \in DOMAIN v : IsRaise(v[i])}
         IN  IF bad # {}
             THEN [exc |-> v[CHOOSE i \in bad : \A j \in bad : i <= j].exc, val |-> NoneVal]
             ELSE [exc |-> "",
                   val |-> [crps |-> v[1], neg_log_lik |-> v[2], pinball |-> v[3]]]

\* ---- the calls tried
QuantilesPct == <<25, 75>>
SamplesOf(S) == UNION {[1..n -> S] : n \in 1..MaxSamples}
Vectors == {Vec(s) : s \in SamplesOf({0, 1})}
StdVectors == {Vec(s) : s \in SamplesOf({1})}
QuantileArrays == {Mat(rows) : rows \in SamplesOf({<<0, 1>>, <<1, 2>>})}

MetricsArgs ==
    {[module |-> "my_compare_methods_script", y_pred |-> p, y_quantiles |-> q, y_std |-> s,
      y_true |-> t, quantiles |-> l] :
        p \in Vectors, q \in QuantileArrays \cup {NoneVal}, s \in StdVectors \cup {NoneVal},
        t \in Vectors, l \in {NoneVal, QuantilesPct}}

MetricsArgsPis ==
    {[module |-> "compare_methods", y_pred |-> p, y_pis |-> q, y_true |-> t, alpha |-> l] :
        p \in Vectors, q \in QuantileArrays \cup {NoneVal}, t \in Vectors, l \in {25, 50}}

MetricsCall(a, r) ==
    /\ fn' = "compute_metrics"
    /\ cfg' = a
    /\ ret' = r.val
    /\ exc' = r.exc
    /\ pc' = IF r.exc = "" THEN "done" ELSE "raised"
    /\ UNCHANGED <<store, mapie_ts_regressor, y_pred, y_pis, raw_pis, step, trace, store0,
                   runNo, first, phase, faults, native_results, posthoc_results, estimator, locals>>

CallComputeMetrics ==
    /\ phase = "metrics" /\ pc = "idle"
    /\ \E a \in MetricsArgs : MetricsCall(a, compute_metrics(a))

CallComputeMetricsPis ==
    /\ phase = "metrics" /\ pc = "idle"
    /\ \E a \in MetricsArgsPis : MetricsCall(a, My_UQ_Comparer_compute_metrics(a))

\* ---- posthoc_conformal_prediction, my_compare_methods_script.py lines 314-374
\* the quantile levels requested, in percent
QuantileChoices == {<<5, 95>>, <<5, 50, 95>>, <<5, 25, 75, 95>>, <<5, 25, 50, 75, 95>>}

\* pis_from_quantiles: one interval per level below the median, outermost
\* first, given by its miscoverage alpha in percent
pis_from_quantiles(quantiles) ==
    LET low == SelectSeq(quantiles, LAMBDA q : q < 50)
    IN  SeqOf([j \in DOMAIN low |-> 2 * low[j]], Len(low))

\* estimate_pred_interals_no_pfit_enbpi: a point prediction per sample and,
\* per sample and alpha, an interval around it, wider for a smaller alpha
EnbpiPred(n) == Vec(SeqOf([i \in 1..n |-> 10 * i], n))
EnbpiPis(n, alphas) ==
    [i \in 1..n |-> [j \in DOMAIN alphas |->
        <<10 * i - (Len(alphas) + 1 - j), 10 * i + (Len(alphas) + 1 - j)>>]]

\* quantiles_from_pis: (n_samples, 2 * n_intervals), the lower bounds from
\* the outermost interval inwards, then the upper bounds outwards
quantiles_from_pis(y_pis_) ==
    SeqOf([i \in DOMAIN y_pis_ |->
              LET m == Len(y_pis_[i])
              IN  SeqOf([c \in 1..(2 * m) |-> IF c <= m THEN y_pis_[i][c][1]
                                                        ELSE y_pis_[i][2 * m + 1 - c][2]],
                        2 * m)],
          Len(y_pis_))

\* the operator / of line 371: true division, the result is a float
TrueDiv(a, b) == [ty |-> "float", v |-> (100 * a) \div b]

\* np.insert(arr, obj, values, axis=1) with a scalar obj: the index is used
\* as a slice bound, which has to be an integer
np_insert(rows, obj, values) ==
    IF obj.ty # "int" THEN Raise("TypeError")
    ELSE SeqOf([i \in DOMAIN rows |->
                  SubSeq(rows[i], 1, obj.v) \o <<values.data[i]>>
                      \o SubSeq(rows[i], obj.v + 1, Len(rows[i]))],
               Len(rows))

\* the tuple (y_pred, y_quantiles, y_std) of line 374
Triple(a, b, c) == [y_pred |-> a, y_quantiles |-> b, y_std |-> c]

posthoc_conformal_prediction(quantiles, n) ==
    LET alphas == pis_from_quantiles(quantiles)
        yp == EnbpiPred(n)
        yq == quantiles_from_pis(EnbpiPis(n, alphas))
        num_quantiles == Len(yq[1])
        ind == TrueDiv(num_quantiles, 2)
        ins == np_insert(yq, ind, yp)
    IN  IF \E e \in DOMAIN quantiles : quantiles[e] = 50
        THEN IF IsRaise(ins) THEN [exc |-> ins.exc, val |-> NoneVal]
             ELSE [exc |-> "", val |-> Triple(yp, Mat(ins), NoneVal)]
        ELSE [exc |-> "", val |-> Triple(yp, Mat(yq), NoneVal)]

CallPosthocConformalPrediction ==
    /\ phase = "metrics" /\ pc = "idle"
    /\ \E q \in QuantileChoices, n \in 1..MaxSamples :
         LET r == posthoc_conformal_prediction(q, n)
         IN  /\ fn' = "posthoc_conformal_prediction"
             /\ cfg' = [quantiles |-> q, n |-> n]
             /\ ret' = r.val
             /\ exc' = r.exc
             /\ pc' = IF r.exc = "" THEN "done" ELSE "raised"
    /\ UNCHANGED <<store, mapie_ts_regressor, y_pred, y_pis, raw_pis, step, trace, store0,
                   runNo, first, phase, faults, native_results, posthoc_results, estimator, locals>>

MetricsReturn ==
    /\ phase = "metrics" /\ pc \in Ended
    /\ fn' = "none"
    /\ cfg' = NoneVal
    /\ ret' = NoneVal
    /\ exc' = ""
    /\ pc' = "idle"
    /\ UNCHANGED <<store, mapie_ts_regressor, y_pred, y_pis, raw_pis, step, trace, store0,
                   runNo, first, phase, faults, native_results, posthoc_results, estimator, locals>>

InitMetrics ==
    /\ store = EmptyStore
    /\ store0 = store
    /\ phase = "metrics"
    /\ faults = {}
    /\ InitCall

NextMetrics ==
    CallComputeMetrics \/ CallComputeMetricsPis \/ CallPosthocConformalPrediction
        \/ MetricsReturn

SpecMetrics == InitMetrics /\ [][NextMetrics]_vars

\* ============================================ NN_Estimator, nn_estimator.py
\* the largest n_iter an estimator is constructed with
MaxEpochs == 3

\* an attribute that is not in the object's __dict__
Unset == [ty |-> "unset"]

\* __init__, lines 66-114: the constructor parameters the epoch loop reads,
\* is_fitted_ = False, both output dimensions; model_ is not assigned
NN_Estimator(n_iter, use_scheduler, show_losses_plot, save_losses_plot, early_stop_patience) ==
    [n_iter              |-> n_iter,
     use_scheduler       |-> use_scheduler,
     show_losses_plot    |-> show_losses_plot,
     save_losses_plot    |-> save_losses_plot,
     early_stop_patience |-> early_stop_patience,
     is_fitted_          |-> FALSE,
     output_dim          |-> 2,
     output_dim_orig     |-> 2,
     model_              |-> Unset]

\* early_stop_patience: None (the default) or a number of epochs
PyInt(v) == [ty |-> "int", v |-> v]
Patiences == {NoneVal, PyInt(1), PyInt(2)}

NewEstimators ==
    {NN_Estimator(n, s, p, v, e) :
        n \in 1..MaxEpochs, s \in BOOLEAN, p \in BOOLEAN, v \in BOOLEAN, e \in Patiences}

\* _nn_builder, lines 246-262: a torch.nn.Sequential; weights tells where its
\* parameters come from
Network(weights) == [ty |-> "Sequential", weights |-> weights, device |-> "cpu"]

Devices == {"cpu", "cuda"}

\* the validation loss of an epoch, line 202 (a small set of magnitudes)
ValLosses == {1, 2}

\* ---- helpers.early_stopper.EarlyStopper
\* a stopper with the given patience: it counts the consecutive epochs whose
\* validation loss did not fall below the least loss seen so far
EarlyStopper(patience) == [patience |-> patience, counter |-> 0, min_loss |-> PosInf]

\* should_stop(loss): the answer and the stopper after the call
should_stop(es, loss) ==
    IF loss < es.min_loss
    THEN [stop |-> FALSE, es |-> [es EXCEPT !.min_loss = loss, !.counter = 0]]
    ELSE [stop |-> es.counter + 1 >= es.patience,
          es   |-> [es EXCEPT !.counter = es.counter + 1]]

\* any([...]) of line 197
any(flags) == \E i \in DOMAIN flags : flags[i]

\* ---- fit, lines 116-239
\* lines 116-184: parameters and data are validated, the network, the
\* scheduler and, when a patience is given, the early stopper are built
CallFit ==
    /\ phase = "nn" /\ pc = "idle"
    /\ fn' = "fit"
    /\ cfg' = NoneVal
    /\ ret' = NoneVal
    /\ \E valid \in BOOLEAN :
         IF valid
         THEN /\ pc' = "loop"
              /\ exc' = ""
              /\ locals' = [epoch         |-> 0,
                            model         |-> Network("initial"),
                            early_stopper |-> IF estimator.early_stop_patience # NoneVal
                                              THEN EarlyStopper(estimator.early_stop_patience.v)
                                              ELSE Unset,
                            val_losses    |-> <<>>,
                            losses        |-> <<>>,
                            scheduler     |-> <<>>,
                            broke         |-> FALSE]
         ELSE /\ pc' = "raised"
              /\ exc' = "ValueError"
              /\ locals' = NoneVal
    /\ UNCHANGED <<store, mapie_ts_regressor, y_pred, y_pis, raw_pis, step, trace, store0,
                   runNo, first, phase, faults, native_results, posthoc_results, estimator>>

\* one pass of the loop of lines 187-222.  loss is the validation loss of the
\* network after the epoch's training; losses records it for every epoch,
\* whether or not line 202 computes it
FitEpoch ==
    /\ phase = "nn" /\ fn = "fit" /\ pc = "loop"
    /\ \E loss \in ValLosses :
         LET trained == [locals EXCEPT !.epoch = locals.epoch + 1,
                                       !.model = Network("trained"),
                                       !.losses = Append(locals.losses, loss)]
             skip == ~any(<<estimator.use_scheduler, estimator.show_losses_plot,
                            estimator.save_losses_plot>>)
             plotted == IF estimator.show_losses_plot \/ estimator.save_losses_plot
                        THEN [trained EXCEPT !.val_losses = Append(locals.val_losses, loss)]
                        ELSE trained
             asked == estimator.early_stop_patience # NoneVal
             answer == should_stop(locals.early_stopper, loss)
             checked == IF asked THEN [plotted EXCEPT !.early_stopper = answer.es]
                        ELSE plotted
             stepped == IF estimator.use_scheduler
                        THEN [checked EXCEPT !.scheduler = Append(locals.scheduler, loss)]
                        ELSE checked
             after == IF skip THEN trained
                      ELSE IF asked /\ answer.stop THEN [checked EXCEPT !.broke = TRUE]
                      ELSE stepped
         IN  /\ locals' = after
             /\ pc' = IF after.broke \/ after.epoch = estimator.n_iter
                      THEN "after_loop" ELSE "loop"
    /\ UNCHANGED <<store, fn, cfg, mapie_ts_regressor, y_pred, y_pis, raw_pis, step, trace,
                   ret, exc, store0, runNo, first, phase, faults, native_results,
                   posthoc_results, estimator>>

\* lines 224-239: the network is stored, the losses are plotted, the
\* estimator is marked as fitted and returned
FitFinish ==
    /\ phase = "nn" /\ fn = "fit" /\ pc = "after_loop"
    /\ estimator' = [estimator EXCEPT !.model_ = locals.model, !.is_fitted_ = TRUE]
    /\ ret' = [ty |-> "self"]
    /\ pc' = "done"
    /\ UNCHANGED <<store, fn, cfg, mapie_ts_regressor, y_pred, y_pis, raw_pis, step, trace,
                   exc, store0, runNo, first, phase, faults, native_results,
                   posthoc_results, locals>>

\* ---- the other methods; each is one call on the estimator
\* the outcome of a call: the estimator after it, the value returned and the
\* exception raised
Outcome(est, val, e) == [estimator |-> est, val |-> val, exc |-> e]

\* load_state_dict, lines 352-360
load_state_dict(self) ==
    Outcome([self EXCEPT !.model_ = Network("loaded")], NoneVal, "")

\* to, lines 321-324; reading model_ goes through __getattr__, lines 326-334
to(self, device) ==
    IF self.model_ = Unset THEN Outcome(self, NoneVal, "AttributeError")
    ELSE Outcome([self EXCEPT !.model_.device = device], [ty |-> "self"], "")

\* set_output_dim, lines 344-347
set_output_dim(self, output_dim, orig) ==
    Outcome([self EXCEPT !.output_dim = output_dim,
                         !.output_dim_orig = IF orig THEN output_dim ELSE @],
            NoneVal, "")

\* reset_output_dim, lines 349-350
reset_output_dim(self) ==
    Outcome([self EXCEPT !.output_dim = self.output_dim_orig], NoneVal, "")

\* predict_on_tensor, lines 304-309: the network applied to X
predict_on_tensor(self) ==
    IF self.model_ = Unset THEN Outcome(self, NoneVal, "AttributeError")
    ELSE Outcome(self, [ty |-> "Tensor", by |-> self.model_.weights], "")

\* __call__, lines 336-339
call(self) ==
    IF ~self.is_fitted_ THEN Outcome(self, NoneVal, "TypeError")
    ELSE predict_on_tensor(self)

NNCall(f, a, out) ==
    /\ fn' = f
    /\ cfg' = a
    /\ estimator' = out.estimator
    /\ ret' = out.val
    /\ exc' = out.exc
    /\ pc' = IF out.exc = "" THEN "done" ELSE "raised"
    /\ UNCHANGED <<store, mapie_ts_regressor, y_pred, y_pis, raw_pis, step, trace, store0,
                   runNo, first, phase, faults, native_results, posthoc_results, locals>>

CallLoadStateDict ==
    /\ phase = "nn" /\ pc = "idle"
    /\ NNCall("load_state_dict", NoneVal, load_state_dict(estimator))

CallTo ==
    /\ phase = "nn" /\ pc = "idle"
    /\ \E d \in Devices : NNCall("to", [device |-> d], to(estimator, d))

CallSetOutputDim ==
    /\ phase = "nn" /\ pc = "idle"
    /\ \E d \in {1, 2}, o \in BOOLEAN :
         NNCall("set_output_dim", [output_dim |-> d, orig |-> o],
                set_output_dim(estimator, d, o))

CallResetOutputDim ==
    /\ phase = "nn" /\ pc = "idle"
    /\ NNCall("reset_output_dim", NoneVal, reset_output_dim(estimator))

CallCall ==
    /\ phase = "nn" /\ pc = "idle"
    /\ NNCall("__call__", NoneVal, call(estimator))

\* the call has ended; the caller goes on with the estimator
NNReturn ==
    /\ phase = "nn" /\ pc \in Ended
    /\ fn' = "none"
    /\ cfg' = NoneVal
    /\ ret' = NoneVal
    /\ exc' = ""
    /\ pc' = "idle"
    /\ locals' = NoneVal
    /\ UNCHANGED <<store, mapie_ts_regressor, y_pred, y_pis, raw_pis, step, trace, store0,
                   runNo, first, phase, faults, native_results, posthoc_results, estimator>>

InitNN ==
    /\ store = EmptyStore
    /\ store0 = store
    /\ phase = "nn"
    /\ faults = {}
    /\ fn = "none"
    /\ pc = "idle"
    /\ cfg = NoneVal
    /\ mapie_ts_regressor = NoneVal
    /\ y_pred = NoneVal
    /\ y_pis = NoneVal
    /\ raw_pis = <<>>
    /\ step = 0
    /\ trace = <<>>
    /\ ret = NoneVal
    /\ exc = ""
    /\ runNo = 0
    /\ first = NoneVal
    /\ native_results = NoneVal
    /\ posthoc_results = NoneVal
    /\ estimator \in NewEstimators
    /\ locals = NoneVal

NextNN ==
    CallFit \/ FitEpoch \/ FitFinish \/ CallLoadStateDict \/ CallTo \/ CallSetOutputDim
        \/ CallResetOutputDim \/ CallCall \/ NNReturn

SpecNN == InitNN /\ [][NextNN]_vars

\* ================================================================ claims
Idx(op) == {k \in 1..Len(trace) : trace[k].op = op}
Preds == SelectSeq(trace, LAMBDA e : e.op = "predict")
PFs == SelectSeq(trace, LAMBDA e : e.op = "partial_fit")
UpdateIdx == Idx("partial_fit") \cup Idx("adapt")

\* the worker has left the stepping loop (line 360 reached)
ComputeFinished ==
    /\ fn = "worker"
    /\ pc \in Ended
    /\ Idx("predict") # {}
    /\ exc # "IndexError"

\* C1: no lookahead.  Every true target handed to partial_fit or
\* adapt_conformal_inference before the prediction of chunk k is stored lies
\* in a chunk with index < k, and the regressor that produced the latest
\* prediction has been updated only with targets of rows before that chunk:
\* the targets of chunk k and of later chunks cannot influence chunk k.
NoLookahead ==
    fn = "worker" =>
        /\ \A p \in Idx("predict") : \A q \in UpdateIdx :
             q < p =>
                \A j \in Rows(trace[q].lo, trace[q].hi, cfg.n) :
                    (j \div cfg.gap) < (trace[p].lo \div cfg.gap)
        /\ mapie_ts_regressor.ty = "regressor" =>
             \A h \in 1..Len(mapie_ts_regressor.hist) :
                \A j \in Rows(mapie_ts_regressor.hist[h].lo,
                              mapie_ts_regressor.hist[h].hi, cfg.n) : j < step

NoLookaheadWitness ==
    /\ fn = "worker" /\ pc = "sentinel"
    /\ cfg.with_partial_fit /\ cfg.method = "aci" /\ cfg.gap = 1
    /\ step = 2
    /\ Cardinality(Idx("partial_fit")) = 2 /\ Cardinality(Idx("adapt")) = 2

\* C2: the query rows are predicted in contiguous chunks of size gap, in
\* increasing order from chunk 0: the k-th predict call takes the slice
\* [(k-1)*gap, k*gap), no row is predicted twice, the cursor step is the start
\* of the chunk predicted last, and once the loop is left every row 0..n-1 has
\* been predicted exactly once and written to y_pred.
ChunksInOrder ==
    fn = "worker" =>
        /\ \A k \in 1..Len(Preds) :
             /\ Preds[k].lo = (k - 1) * cfg.gap
             /\ Preds[k].hi = k * cfg.gap
             /\ Rows(Preds[k].lo, Preds[k].hi, cfg.n) # {}
        /\ \A i \in 0..(cfg.n - 1) :
             Cardinality({k \in 1..Len(Preds) :
                            i \in Rows(Preds[k].lo, Preds[k].hi, cfg.n)}) <= 1
        /\ Len(Preds) > 0 => step = Preds[Len(Preds)].lo
        /\ ComputeFinished =>
             \A i \in 0..(cfg.n - 1) :
                /\ \E k \in 1..Len(Preds) : i \in Rows(Preds[k].lo, Preds[k].hi, cfg.n)
                /\ y_pred.data[i] # 0

ChunksInOrderWitness ==
    /\ ComputeFinished
    /\ cfg.n = 3 /\ cfg.gap = 2
    /\ Len(Preds) = 2
    /\ step = 2

\* C3: one-step-behind partial fit.  With with_partial_fit the k-th
\* partial_fit call gets exactly the rows of chunk k-1, it is the only
\* partial_fit between the predictions of chunks k-1 and k, there is one
\* partial_fit less than there are predictions (so no chunk is fed twice and
\* the last chunk is never fed); without with_partial_fit there is none.
OneStepBehind ==
    fn = "worker" =>
        /\ ~cfg.with_partial_fit => Len(PFs) = 0
        /\ cfg.with_partial_fit =>
             /\ \A k \in 1..Len(PFs) :
                  /\ PFs[k].lo = (k - 1) * cfg.gap
                  /\ PFs[k].hi = k * cfg.gap
                  /\ PFs[k].hi <= cfg.n
             /\ Len(Preds) > 0 => Len(PFs) = Len(Preds) - 1
             /\ \A p \in Idx("predict") :
                  trace[p].lo > 0 =>
                     \E q \in Idx("partial_fit") :
                        /\ q < p
                        /\ trace[q].lo = trace[p].lo - cfg.gap
                        /\ trace[q].hi = trace[p].lo
                        /\ \A r \in Idx("predict") \cup Idx("partial_fit") :
                             ~(q < r /\ r < p)
             /\ Len(Preds) > 0 =>
                  \A k \in 1..Len(PFs) : PFs[k].hi <= Preds[Len(Preds)].lo

OneStepBehindWitness ==
    /\ ComputeFinished
    /\ cfg.with_partial_fit /\ cfg.method = "enbpi"
    /\ cfg.n = 3 /\ cfg.gap = 1
    /\ Len(PFs) = 2

\* C4: order of the calls.  Chunk 0 is predicted before any partial_fit or
\* adapt_conformal_inference; between the predictions of chunks k-1 and k
\* (k >= 1) the calls are exactly partial_fit (if with_partial_fit) and then
\* adapt_conformal_inference with gamma 0.05 (if method is aci), both on the
\* rows of chunk k-1; with method enbpi there is no adapt call.
CallOrder ==
    fn = "worker" =>
        /\ \A q \in UpdateIdx :
             \E p \in Idx("predict") : p < q /\ trace[p].lo = 0
        /\ \A p \in Idx("predict") :
             trace[p].lo > 0 =>
                \E pp \in Idx("predict") :
                   /\ pp < p
                   /\ \A r \in Idx("predict") : ~(pp < r /\ r < p)
                   /\ SubSeq(trace, pp + 1, p - 1) =
                        (IF cfg.with_partial_fit
                         THEN <<Ev("partial_fit", NoKey, trace[p].lo - cfg.gap, trace[p].lo, 0)>>
                         ELSE <<>>)
                        \o (IF cfg.method = "aci"
                            THEN <<Ev("adapt", NoKey, trace[p].lo - cfg.gap, trace[p].lo, 5)>>
                            ELSE <<>>)
        /\ cfg.method = "enbpi" => Idx("adapt") = {}

CallOrderWitness ==
    /\ ComputeFinished
    /\ cfg.with_partial_fit /\ cfg.method = "aci"
    /\ cfg.n = 3 /\ cfg.gap = 1
    /\ Cardinality(Idx("adapt")) = 2 /\ Len(PFs) = 2

\* C5: sentinel substitution.  In the interval array the compute path ends
\* with (the array of the return statement of line 365), no entry is +inf or
\* -inf: every infinite bound predict produced, for chunk 0 as for the later
\* chunks, has become the sentinel -1, and every finite bound is what predict
\* produced.
SentinelEverywhere ==
    ComputeFinished =>
        \A i \in DOMAIN y_pis.data : \A b \in 1..2 :
            /\ ~isinf(y_pis.data[i][b])
            /\ y_pis.data[i][b] = (IF isinf(raw_pis[i][b]) THEN -1 ELSE raw_pis[i][b])

\* C6: cache round trip.  From an empty store the first run completes, and
\* the second run with the same configuration and skip_adaptation=True
\* returns exactly what the first run returned, read from the store, with no
\* fit, partial_fit, adapt or predict call.
CacheRoundTrip ==
    /\ (runNo = 1 /\ pc \in Ended) => pc = "done"
    /\ (runNo = 2 /\ pc \in Ended) =>
         /\ pc = "done"
         /\ first.pc = "done"
         /\ ret = first.ret
         /\ Idx("fit") \cup Idx("predict") \cup UpdateIdx = {}

\* C7: STEPPING -> DONE.  Once the stepping loop is left, the worker ends by
\* returning (y_pred, y_pis), and at that point the store holds the
\* prediction array under the y_pred key, the interval array under the y_pis
\* key and the adapted regressor under the adapted-model key.
PersistThenReturn ==
    ComputeFinished =>
        /\ pc = "done"
        /\ ret = [y_pred |-> y_pred, y_pis |-> y_pis]
        /\ load_array(store, filename_arr_y_pred(cfg.method, cfg.with_partial_fit)).val
             = y_pred
        /\ load_array(store, filename_arr_y_pis(cfg.method, cfg.with_partial_fit)).val
             = y_pis
        /\ get_model(store, filename_model_adapted(cfg.method, cfg.with_partial_fit)).val
             = mapie_ts_regressor

\* the worker returned from the try block of lines 299-302
ViaCache == fn = "worker" /\ pc = "done" /\ mapie_ts_regressor.ty = "None"

\* C8: cache short-circuit.  Once the decision of lines 298-304 is taken: the
\* worker has returned from the cache exactly when skip_adaptation was
\* requested and both cached arrays existed on entry; it then returns the two
\* cached arrays, has made no fit, predict, partial_fit or adapt call and has
\* written nothing; otherwise it is on the compute path and, when it ends
\* with a three-axis interval buffer, has predicted every chunk; without
\* skip_adaptation no cached array is read.
CacheShortCircuit ==
    (fn = "worker" /\ pc # "cache") =>
        LET kp == filename_arr_y_pred(cfg.method, cfg.with_partial_fit)
            ki == filename_arr_y_pis(cfg.method, cfg.with_partial_fit)
            both == Present(store0, kp) /\ Present(store0, ki)
        IN  /\ ViaCache <=> (cfg.skip_adaptation /\ both)
            /\ ViaCache =>
                 /\ ret = [y_pred |-> store0[kp.s], y_pis |-> store0[ki.s]]
                 /\ store = store0
                 /\ \A k \in 1..Len(trace) : trace[k].op = "load_array"
            /\ ~ViaCache =>
                 /\ pc \in {"base", "first", "loop", "sentinel"} \cup Ended
                 /\ (pc \in Ended /\ Len(cfg.y_pis_shape) = 3) =>
                      /\ ComputeFinished
                      /\ Len(Preds) * cfg.gap >= cfg.n
            /\ ~cfg.skip_adaptation => Idx("load_array") = {}

CacheShortCircuitWitness ==
    /\ ViaCache
    /\ cfg.skip_adaptation
    /\ Present(store0, filename_arr_y_pred(cfg.method, cfg.with_partial_fit))
    /\ Present(store0, filename_arr_y_pis(cfg.method, cfg.with_partial_fit))
    /\ ret.y_pred = ExtPred /\ ret.y_pis = ExtPis

\* C9 as stated: in every run of the worker, DONE is reached only after a
\* base regressor has been fitted or loaded from the cache.
DoneOnlyAfterBase ==
    (fn = "worker" /\ pc = "done") =>
        /\ mapie_ts_regressor.ty = "regressor"
        /\ mapie_ts_regressor.fitted
        /\ \E k \in 1..Len(trace) :
             trace[k].op = "fit" \/ (trace[k].op = "get_model" /\ trace[k].arg = 1)

Phase ==
    CASE pc \in {"idle", "cache", "base"} -> "UNINITIALIZED"
      [] pc = "first" -> "BASE_FITTED"
      [] pc \in {"loop", "sentinel"} -> "STEPPING"
      [] pc = "done" -> "DONE"
      [] pc = "raised" -> "FAILED"

PhaseOrder ==
    {<<"UNINITIALIZED", "UNINITIALIZED">>, <<"UNINITIALIZED", "BASE_FITTED">>,
     <<"UNINITIALIZED", "DONE">>, <<"BASE_FITTED", "STEPPING">>,
     <<"STEPPING", "STEPPING">>, <<"STEPPING", "DONE">>,
     <<"BASE_FITTED", "FAILED">>, <<"STEPPING", "FAILED">>,
     <<"DONE", "UNINITIALIZED">>, <<"FAILED", "UNINITIALIZED">>}

BaseReady ==
    /\ mapie_ts_regressor.ty = "regressor"
    /\ mapie_ts_regressor.fitted
    /\ \E k \in 1..Len(trace) :
         trace[k].op = "fit" \/ (trace[k].op = "get_model" /\ trace[k].arg = 1)

\* C9 amended: the worker moves through its states only in the order
\* UNINITIALIZED -> BASE_FITTED -> STEPPING -> DONE, except that the cached
\* short-circuit goes from UNINITIALIZED straight to DONE with no regressor
\* fitted or loaded: BASE_FITTED and STEPPING are entered only with a fitted
\* or loaded base regressor, and DONE is reached either from STEPPING with
\* such a regressor or by the short-circuit.
StateOrder ==
    /\ [](fn = "worker" =>
            /\ Phase \in {"BASE_FITTED", "STEPPING"} => BaseReady
            /\ Phase = "UNINITIALIZED" => mapie_ts_regressor.ty = "None"
            /\ Phase = "DONE" =>
                 \/ BaseReady /\ ComputeFinished
                 \/ /\ mapie_ts_regressor.ty = "None"
                    /\ \A k \in 1..Len(trace) : trace[k].op = "load_array")
    /\ [][(fn = "worker" /\ fn' = "worker") => <<Phase, Phase'>> \in PhaseOrder]_vars

StateOrderWitness ==
    /\ fn = "worker" /\ Phase = "DONE"
    /\ mapie_ts_regressor.ty = "None"
    /\ ~Present(store, filename_model_base(cfg.method))
    /\ Idx("fit") \cup Idx("get_model") = {}

\* C10: cache-or-compute of the fitted model, for the worker's base
\* regressor, estimate_pred_interals_no_pfit_enbpi and train_base_model.
\* Skipping requested and the model cached: the only step is the load (no
\* fit, no save) and the loaded model is used.  Skipping requested and the
\* load misses: load, then fit, then save under the same key.  Skipping not
\* requested: no load, fit, then save under the key, replacing its content.
BaseKey ==
    CASE fn = "worker" -> filename_model_base(cfg.method)
      [] fn = "no_pfit_enbpi" -> filename_enbpi_no_pfit
      [] fn = "train_base_model" -> filename_base_model

BaseEvents ==
    SelectSeq(trace, LAMBDA e : \/ e.op \in {"get_model", "fit"}
                                \/ e.op = "save_model" /\ e.key = BaseKey.s)

BaseModelUsed ==
    IF fn = "train_base_model" THEN ret ELSE [mapie_ts_regressor EXCEPT !.hist = <<>>]

BaseStepDone ==
    \/ fn = "worker" /\ mapie_ts_regressor.ty = "regressor"
    \/ fn \in {"no_pfit_enbpi", "train_base_model"} /\ pc = "done"

LoadOps == {"load_array", "get_model"}
LibraryOps == LoadOps \cup {"fit", "predict", "save_model", "save_array"}

ErrorOf(op) ==
    CASE op \in LoadOps -> LoadError
      [] op = "fit" -> FitError
      [] op = "predict" -> PredictError
      [] op \in {"save_model", "save_array"} -> SaveError

SqueezeKeepsSamples ==
    /\ (fn = "no_pfit_enbpi" /\ pc = "done") => ret.y_pis.shape = <<cfg.n, 2>>
    /\ (fn = "worker" /\ pc \in Ended /\ ComputeFinished) => y_pis.shape = <<cfg.n, 2>>

\* C13: the keys of the worker's arrays separate configurations.  Two
\* configurations that differ in method, in the partial-fit flag or in the
\* size of the data have different array keys, so a run that returns cached
\* arrays returns arrays of its own data size.
KeysSeparateConfigs ==
    ViaCache =>
        /\ \A c2 \in WorkerConfigs({3}) :
             <<cfg.method, cfg.with_partial_fit, cfg.n>>
                    # <<c2.method, c2.with_partial_fit, c2.n>>
                => /\ filename_arr_y_pred(cfg.method, cfg.with_partial_fit)
                        # filename_arr_y_pred(c2.method, c2.with_partial_fit)
                   /\ filename_arr_y_pis(cfg.method, cfg.with_partial_fit)
                        # filename_arr_y_pis(c2.method, c2.with_partial_fit)
        /\ ret.y_pred.shape = <<cfg.n>>

\* the names of the universe that start with native / posthoc
NativeNames == {native_foo, native_qux}
PosthocNames == {posthoc_bar, posthoc_cp}
DefinedNames == {cfg.cls.__dict__[i] : i \in 1..Len(cfg.cls.__dict__)}

\* C14: prefix dispatch.  get_native_methods() returns the mapping whose keys
\* are exactly the names of the class that start with native, each mapped to
\* its method, get_posthoc_methods() the same for posthoc; a name that
\* contains the prefix elsewhere, differs in case or has another prefix is in
\* neither, and no name is in both.
PrefixDispatch ==
    (fn \in {"get_native_methods", "get_posthoc_methods"} /\ pc = "done") =>
        /\ DOMAIN ret = DefinedNames \cap
              (IF fn = "get_native_methods" THEN NativeNames ELSE PosthocNames)
        /\ \A k \in DOMAIN ret : ret[k] = Method(k)
        /\ DOMAIN get_native_methods(cfg.cls) \cap DOMAIN get_posthoc_methods(cfg.cls) = {}

PrefixDispatchWitness ==
    /\ fn = "get_native_methods" /\ pc = "done"
    /\ DefinedNames = {native_foo, posthoc_bar, helper_baz}
    /\ DOMAIN ret = {native_foo}
    /\ DOMAIN get_posthoc_methods(cfg.cls) = {posthoc_bar}

CallIdx(uq_type) == {k \in Idx("call") : trace[k].uq_type = uq_type}
Invoked(uq_type) == {trace[k].key : k \in CallIdx(uq_type)}

\* C15: whitelist intersection.  Only whitelisted methods are invoked and
\* reported: every invoked method is in the whitelist, and once the native
\* run has returned, the invoked methods and the keys of its result mapping
\* are the discovered native methods intersected with the whitelist (stated
\* here for a whitelist that names at least one method).
WhitelistIntersection ==
    (fn = "compare_methods" /\ cfg.method_whitelist # {}) =>
        /\ \A k \in Idx("call") : trace[k].key \in cfg.method_whitelist
        /\ pc = "posthoc" =>
             /\ Invoked(native) = DefinedNames \cap NativeNames \cap cfg.method_whitelist
             /\ DOMAIN native_results = Invoked(native)

\* C16: an empty whitelist runs nothing.  With an empty method whitelist no
\* UQ method is invoked and the result mappings are empty;
\* get_uq_method_to_arrs_dict with an empty UQ_METHODS_WHITELIST returns the
\* empty mapping and loads no array.
EmptyWhitelistRunsNothing ==
    /\ (fn = "compare_methods" /\ cfg.method_whitelist = {}) =>
         /\ Idx("call") = {}
         /\ native_results \in {NoneVal, EmptyDict}
         /\ posthoc_results \in {NoneVal, EmptyDict}
    /\ (fn = "get_uq_method_to_arrs_dict" /\ cfg.UQ_METHODS_WHITELIST = {}) =>
         /\ pc = "done"
         /\ ret = EmptyDict
         /\ trace = <<>>

TrainIdx == Idx("train_base_model")
TrainInner == Idx("get_model") \cup Idx("fit") \cup Idx("save_model")

\* C17: the base model of a run.  The native run never calls
\* train_base_model and hands no model to its methods.  The posthoc run
\* calls train_base_model exactly once, the call (with its load or its fit
\* and save) is over before the first posthoc method is invoked, and every
\* posthoc method receives the model that call returned.
BaseModelOnce ==
    fn = "compare_methods" =>
        /\ Cardinality(TrainIdx) <= 1
        /\ pc \in {"native", "posthoc"} => TrainIdx = {} /\ TrainInner = {}
        /\ pc \in {"plot", "metrics", "done"} => Cardinality(TrainIdx) = 1
        /\ \A k \in CallIdx(native) :
             /\ trace[k].model = NoneVal
             /\ \A t \in TrainIdx : k < t
        /\ \A k \in CallIdx(posthoc) :
             /\ \E t \in TrainIdx : t < k
             /\ \A j \in TrainInner : j < k
             /\ Present(store, filename_base_model)
             /\ trace[k].model = store[filename_base_model.s]
             /\ trace[k].model.fitted

BaseModelOnceWitness ==
    /\ fn = "compare_methods" /\ pc = "plot"
    /\ Cardinality(CallIdx(posthoc)) = 2
    /\ Cardinality(CallIdx(native)) = 1
    /\ \A k \in CallIdx(posthoc) : trace[k].model = BaseEstimator

RaisedCalls == {k \in Idx("call") : trace[k].out = "raised"}

\* the error type of the spec that carries the method name and the variant
MethodExecutionError == "MethodExecutionError"

UniformRecord ==
    (fn = "compare_methods" /\ cfg.arity = 3) =>
        /\ exc # "ValueError"
        /\ pc \in {"posthoc", "plot", "metrics", "done"} =>
             \A n \in Invoked(native) :
                /\ n \in DOMAIN native_results
                /\ native_results[n] = MethodReturn(n, 3)
                /\ compute_all_metrics(native_results).exc = ""
        /\ pc \in {"plot", "metrics", "done"} =>
             \A n \in Invoked(posthoc) :
                /\ n \in DOMAIN posthoc_results
                /\ posthoc_results[n] = MethodReturn(n, 3)
                /\ compute_all_metrics(posthoc_results).exc = ""

\* C20: a comparison in which loading the data and every UQ method succeed
\* (each method returning the pair the invoker unpacks) ends normally and
\* returns (native_metrics, posthoc_metrics), each with exactly one entry
\* per method name of the corresponding result mapping.
CompareReturnsMetrics ==
    (/\ fn = "compare_methods"
     /\ cfg.data_ok /\ cfg.raises = {} /\ cfg.arity = 2
     /\ pc \in Ended) =>
        /\ pc = "done"
        /\ exc = ""
        /\ Len(ret) = 2
        /\ DOMAIN ret[1] = DOMAIN native_results
        /\ DOMAIN ret[2] = DOMAIN posthoc_results
        /\ \A n \in DOMAIN ret[1] : ret[1][n] = Metrics(n)
        /\ \A n \in DOMAIN ret[2] : ret[2][n] = Metrics(n)

\* C21: metrics absence propagation.  Whenever compute_metrics returns a
\* mapping: if it was called with y_std = None the mapping has crps = None
\* and neg_log_lik = None while rmse is a float; if it was called with
\* y_quantiles = None it has mean_pinball = None; and every value of the
\* mapping is None or a plain float.
Returned(module) == fn = "compute_metrics" /\ pc = "done" /\ cfg.module = module

IsNoneAt(key) == key \in DOMAIN ret /\ ret[key] = NoneVal
IsFloatAt(key) == key \in DOMAIN ret /\ ret[key].ty = "float"

MetricsAbsence ==
    Returned("my_compare_methods_script") =>
        /\ cfg.y_std = NoneVal =>
              IsNoneAt("crps") /\ IsNoneAt("neg_log_lik") /\ IsFloatAt("rmse")
        /\ cfg.y_quantiles = NoneVal => IsNoneAt("mean_pinball")
        /\ \A key \in DOMAIN ret : IsNoneAt(key) \/ IsFloatAt(key)

\* C22: the mean pinball loss a returned mapping reports is the one of
\* (y_true, y_quantiles, quantiles): the loss is computed against the
\* ground truth, not against the point prediction.
PinballFromTruth ==
    (/\ Returned("my_compare_methods_script")
     /\ cfg.y_quantiles # NoneVal /\ cfg.quantiles # NoneVal) =>
        ret["mean_pinball"] =
            float(mean_pinball_loss(clean_y(cfg.y_true), clean_y(cfg.y_quantiles),
                                    cfg.quantiles))

\* C23: shape contract.  A call of compute_metrics whose y_pred, y_std and
\* y_true lengths or whose interval / quantile array's row count disagree
\* ends in a ShapeMismatchError, never in a metrics mapping (the quantile
\* array counts when the quantile levels are given).
Rows1(a) == a.shape[1]

Disagree(a) ==
    IF a.module = "my_compare_methods_script"
    THEN \/ Rows1(a.y_true) # Rows1(a.y_pred)
         \/ a.y_std # NoneVal /\ Rows1(a.y_std) # Rows1(a.y_pred)
         \/ /\ a.y_quantiles # NoneVal /\ a.quantiles # NoneVal
            /\ Rows1(a.y_quantiles) # Rows1(a.y_pred)
    ELSE /\ a.y_pis # NoneVal
         /\ Rows1(a.y_pis) # Rows1(a.y_pred) \/ Rows1(a.y_true) # Rows1(a.y_pred)

ShapeContract ==
    (fn = "compute_metrics" /\ pc \in Ended /\ Disagree(cfg)) =>
        pc = "raised" /\ exc = ShapeMismatchError

\* C24: posthoc_conformal_prediction completes and returns a y_quantiles
\* array with exactly one column per requested quantile level; when 0.5 is
\* requested the point prediction is the column in the middle of the
\* interval-derived columns.
MedianInserted ==
    (fn = "posthoc_conformal_prediction" /\ pc \in Ended) =>
        /\ pc = "done"
        /\ ret.y_quantiles.shape = <<cfg.n, Len(cfg.quantiles)>>
        /\ \A e \in DOMAIN cfg.quantiles : cfg.quantiles[e] = 50 =>
              \A i \in 1..cfg.n :
                 ret.y_quantiles.data[(i - 1) * Len(cfg.quantiles) + e] = ret.y_pred.data[i]

\* C25: starting from an empty store, estimate_prediction_intervals_all
\* runs no_pfit_enbpi, no_pfit_aci, pfit_enbpi and pfit_aci in this order
\* and each completes: no call raises, and the shape every call hands the
\* worker for the interval buffer has the three axes (sample, bound, alpha).
AllComplete ==
    (phase \in AllPhaseSet /\ first.store = EmptyStore) =>
        /\ pc # "raised"
        /\ fn = "worker" => Len(cfg.y_pis_shape) = 3

\* in this scenario the worker never enters its loop
AllStopsBeforeLoop == phase \in AllPhaseSet => pc \in {"idle", "cache", "base", "first"} \cup Ended

\* C26: the cached base regressor stays frozen.  Whatever runs came before,
\* the artifact under a base-regressor key is a fitted regressor that has
\* received no partial_fit or adapt update; within a run of the worker the
\* base key is written at most once, before every predict, partial_fit and
\* adapt call, and every later model write goes to a different key.
BaseWrites == {k \in Idx("save_model") : trace[k].key = BaseKey.s}

BaseFrozen ==
    /\ \A m \in Methods :
          Present(store, filename_model_base(m)) =>
              LET reg == store[filename_model_base(m).s]
              IN  reg.ty = "regressor" /\ reg.fitted /\ reg.hist = <<>>
    /\ fn = "worker" =>
          /\ Cardinality(BaseWrites) <= 1
          /\ \A k \in BaseWrites : \A j \in Idx("predict") \cup UpdateIdx : k < j
          /\ filename_model_adapted(cfg.method, cfg.with_partial_fit) # BaseKey

\* a worker that has updated its regressor in memory while the base key holds
\* the artifact it wrote in this run
BaseFrozenWitness ==
    /\ fn = "worker"
    /\ BaseWrites # {}
    /\ UpdateIdx # {}
    /\ mapie_ts_regressor.hist # <<>>
    /\ Present(store, BaseKey)

\* C27: frame of the sentinel substitution.  The substitution that follows
\* the prediction of the chunk at step replaces the infinite entries of that
\* chunk's rows by eps and changes nothing else: the rows of every other
\* chunk, the finite entries of the chunk and the prediction array stay as
\* they were.
SubstitutionStep == fn = "worker" /\ pc = "sentinel" /\ pc' = "loop"

InheritedOnly ==
    {cfg.cls.inherited[i] : i \in 1..Len(cfg.cls.inherited)} \ DefinedNames

OwnBodyOnly ==
    /\ (fn \in {"get_native_methods", "get_posthoc_methods"} /\ pc = "done") =>
          /\ DOMAIN ret =
                {a \in DefinedNames :
                    startswith(a, IF fn = "get_native_methods" THEN native ELSE posthoc)}
          /\ DOMAIN ret \cap InheritedOnly = {}
    /\ fn = "compare_methods" =>
          /\ Invoked(native) \subseteq DOMAIN get_native_methods(cfg.cls)
          /\ Invoked(posthoc) \subseteq DOMAIN get_posthoc_methods(cfg.cls)
          /\ pc \in {"posthoc", "plot", "metrics", "done"} =>
                Invoked(native) = DOMAIN get_native_methods(cfg.cls)
          /\ pc \in {"plot", "metrics", "done"} =>
                Invoked(posthoc) = DOMAIN get_posthoc_methods(cfg.cls)
          /\ (Invoked(native) \cup Invoked(posthoc)) \cap InheritedOnly = {}

\* both runs of a derived class have returned; the base class defines a
\* native and a posthoc method that the class does not redefine
OwnBodyOnlyWitness ==
    /\ fn = "compare_methods" /\ pc = "plot"
    /\ InheritedOnly = {native_qux, posthoc_cp}
    /\ Invoked(native) = {native_foo}
    /\ Invoked(posthoc) = {posthoc_bar}

\* C29: in every state of an NN_Estimator, is_fitted_ is true if and only if
\* a network model_ is present, and a call of an estimator that holds a
\* network does not raise, whatever sequence of fit, load_state_dict, to,
\* set_output_dim and reset_output_dim calls came before.
FittedIffModel ==
    phase = "nn" =>
        /\ estimator.is_fitted_ <=> estimator.model_ # Unset
        /\ (fn = "__call__" /\ pc \in Ended /\ estimator.model_ # Unset) => exc = ""

\* the epochs of the running fit after which the early stopper, asked with
\* the validation losses in turn, answers stop
RECURSIVE StopperAfter(_, _)
StopperAfter(h, patience) ==
    IF h = <<>> THEN [stop |-> FALSE, es |-> EarlyStopper(patience)]
    ELSE should_stop(StopperAfter(SubSeq(h, 1, Len(h) - 1), patience).es, h[Len(h)])

Signals(e) ==
    StopperAfter(SubSeq(locals.losses, 1, e), estimator.early_stop_patience.v).stop

\* C30: fit runs at most n_iter epochs, and when early_stop_patience is set
\* no epoch is run after the first epoch at which the early stopper signals
\* stop, whatever the flags use_scheduler, show_losses_plot, save_losses_plot.
EarlyStopEndsLoop ==
    (phase = "nn" /\ fn = "fit" /\ pc \in {"loop", "after_loop", "done"}) =>
        /\ locals.epoch <= estimator.n_iter
        /\ estimator.early_stop_patience # NoneVal =>
              \A e \in 1..(locals.epoch - 1) : ~Signals(e)

====
